---- MODULE Spec2Model ----
(***************************************************************************)
(* Model of noran97/AI_Email, SMOL_CHAT:                                   *)
(*   - LlamaInference::generate and its helpers (llama_api_server.cpp):    *)
(*     concurrent callers of one shared context and sampler chain,         *)
(*     serialized by inference_mutex.  Specification: Spec.                *)
(*   - parse_cv_metadata, parse_draft_reply, parse_classification and the  *)
(*     draft-reply handler (llama_api_server_cv_detection.cpp): pure       *)
(*     functions of the model's text.  Specification: ExtractSpec.         *)
(***************************************************************************)
EXTENDS Integers, Sequences, FiniteSets, TLC

(***************************************************************************)
(* Bounds of the model.                                                    *)
(***************************************************************************)
\* number of HTTP worker threads that may call generate concurrently
NThreads == 2
\* ctx_params.n_ctx, the context capacity given to the constructor
NCtx == 3
\* largest max_tokens a caller passes
MaxTok == 2

Threads == 1..NThreads
NoThread == 0

\* max_tokens is an int: callers may pass zero or a negative number
MaxTokensValues == (-1)..MaxTok

(***************************************************************************)
(* The vocabulary.  Token ids are llama_token (int32).  Ids 0 and 1 have   *)
(* one-character pieces, id 2 is the end-of-sequence token, id 3 converts  *)
(* to a piece of length 0 and id 4 to a negative length (the piece does    *)
(* not fit the 256-byte buffer).  The sampler may also return a negative   *)
(* id.                                                                     *)
(***************************************************************************)
llama_vocab_eos == 2
Vocab == 0..4
InvalidToken == -1
SampleValues == Vocab \cup {InvalidToken}
PromptVocab == {0, 1}

\* the token sequences llama_tokenize can produce for the prompts considered:
\* every length from 0 to one more than the capacity
MaxPromptLen == NCtx + 1
PromptTokenSeqs == UNION {[1..n -> PromptVocab] : n \in 0..MaxPromptLen}

\* llama_token_to_piece(vocab, tok, buf, 256, 0, false): the length written
\* and the bytes
llama_token_to_piece(tok) ==
    CASE tok = 0 -> [n |-> 1, text |-> <<"a">>]
      [] tok = 1 -> [n |-> 1, text |-> <<"b">>]
      [] tok = 3 -> [n |-> 0, text |-> <<>>]
      [] tok = 4 -> [n |-> -1, text |-> <<>>]
      [] OTHER   -> [n |-> 0, text |-> <<>>]

(***************************************************************************)
(* State of the inference server.                                          *)
(***************************************************************************)
VARIABLES
    inference_mutex,  \* the thread holding the mutex, or NoThread
    ctx_memory,       \* llama_get_memory(ctx): the positions held by the cache
    sampler_state,    \* the sampler chain's history: the tokens accepted since its last reset
    sampler_chain,    \* the sampler chain's stages, in the order they were added
    pc,               \* each thread's position in generate
    max_tokens,       \* generate's argument
    tokens,           \* generate's local: the tokenized prompt
    response,         \* generate_tokens' local
    n_generated,      \* generate_tokens' local
    cur_pos,          \* generate_tokens' local
    eos_count,        \* generate_tokens' local
    new_token,        \* generate_tokens' local
    outcome,          \* what generate hands to its caller: a string or an exception
    obs               \* per session: the calls made on the context and the sampler chain

genVars == <<inference_mutex, ctx_memory, sampler_state, sampler_chain, pc, max_tokens, tokens,
             response, n_generated, cur_pos, eos_count, new_token, outcome, obs>>

locals == <<tokens, response, n_generated, cur_pos, eos_count, new_token>>

(***************************************************************************)
(* State of the attachment-processing server's extraction: the text the    *)
(* vision model printed and what each handler made of it.                  *)
(***************************************************************************)
VARIABLES
    model_output,         \* the text handed to the extractors
    metadata,             \* detect-cv: parse_cv_metadata(model_output)
    reply_data,           \* draft-reply: parse_draft_reply(model_output)
    draft_response,       \* draft-reply: the handler's response
    classification_data   \* classify: parse_classification(model_output)

extVars == <<model_output, metadata, reply_data, draft_response, classification_data>>

\* the persona handler: the request, the text generate returned, and the
\* locals of extract_persona_line
VARIABLES
    input_json,      \* the request's name, position, department, language
    raw_output,      \* the generated text
    stream,          \* what std::getline has not read yet
    line_count,
    best_line,
    persona_pc,      \* "idle", "scan", "extracted" or "done"
    persona_string   \* the handler's final string

perVars == <<input_json, raw_output, stream, line_count, best_line, persona_pc,
             persona_string>>

(***************************************************************************)
(* State of the attachment-processing server's temporary images.           *)
(***************************************************************************)
VARIABLES
    req_pc,        \* each request thread's position in its handler
    endpoint,      \* the handler serving the request
    attachments,   \* the request's attachment names
    att_index,     \* the handler's position in the loop over the attachments
    image_paths,   \* the handler's local: the images it rendered
    files,         \* ../uploads/temp: for each path the request whose image it holds
    given          \* what the vision model found at each path it was given

attVars == <<req_pc, endpoint, attachments, att_index, image_paths, files, given>>

vars == <<genVars, extVars, perVars, attVars>>

NoOutcome == [kind |-> "none", text |-> <<>>, what |-> "none"]

NoObs == [clears |-> 0, resets |-> 0, dirty |-> FALSE, tokenized |-> FALSE, n_tokens |-> -1,
          batches |-> <<>>, accepted |-> <<>>, sampled |-> <<>>,
          pieces |-> <<>>, stop |-> "none", via |-> <<>>]

\* llama_sampler_chain_default_params and llama_sampler_chain_init, line 116:
\* a chain without stages
llama_sampler_chain_init == <<>>

\* a chain that puts each new stage in front of the others
ChainAddInFront(chain, stage) == <<stage>> \o chain

\* llama_sampler_chain_add(chain, stage): the stage becomes the chain's last
llama_sampler_chain_add(chain, stage) == Append(chain, stage)

\* the four stages of lines 123-126, with their arguments as written
llama_sampler_init_top_k == [stage |-> "top_k", arg |-> "40"]
llama_sampler_init_top_p == [stage |-> "top_p", arg |-> "0.9f"]
llama_sampler_init_temp == [stage |-> "temp", arg |-> "0.7f"]
llama_sampler_init_dist == [stage |-> "dist", arg |-> "LLAMA_DEFAULT_SEED"]

\* init_sampler, lines 113-128, called once by the constructor (line 53)
init_sampler ==
    llama_sampler_chain_add(
        llama_sampler_chain_add(
            llama_sampler_chain_add(
                llama_sampler_chain_add(llama_sampler_chain_init,
                                        llama_sampler_init_top_k),
                llama_sampler_init_top_p),
            llama_sampler_init_temp),
        llama_sampler_init_dist)

GenInit ==
    /\ inference_mutex = NoThread
    /\ ctx_memory = {}
    /\ sampler_state = <<>>
    /\ sampler_chain = init_sampler
    /\ pc = [t \in Threads |-> "idle"]
    /\ max_tokens = [t \in Threads |-> 0]
    /\ tokens = [t \in Threads |-> <<>>]
    /\ response = [t \in Threads |-> <<>>]
    /\ n_generated = [t \in Threads |-> 0]
    /\ cur_pos = [t \in Threads |-> 0]
    /\ eos_count = [t \in Threads |-> 0]
    /\ new_token = [t \in Threads |-> 0]
    /\ outcome = [t \in Threads |-> NoOutcome]
    /\ obs = [t \in Threads |-> NoObs]

(***************************************************************************)
(* Helpers of generate, one per expression of the source.                  *)
(***************************************************************************)
\* model and ctx are set by the constructor, which throws when either is
\* null, and are never assigned again: the test of line 73 always passes
ModelAndCtxInitialized == TRUE

\* a lock that never blocks
MutexAlwaysFree(m) == TRUE

\* std::lock_guard<std::mutex> lock(inference_mutex): blocks until free
MutexFree(m) == m = NoThread

\* a clear that leaves the cache as it is
MemoryNotCleared(mem) == mem

\* llama_memory_clear(llama_get_memory(ctx), false)
llama_memory_clear(mem) == {}

\* llama_sampler_reset(sampler_state.get())
llama_sampler_reset(s) == <<>>

\* llama_sampler_accept(sampler_state.get(), t)
llama_sampler_accept(s, tok) == Append(s, tok)

\* the capacity test with > for >=
PromptTooLongStrict(n) == n > NCtx

\* tokens.size() >= ctx_params.n_ctx
PromptTooLong(n) == n >= NCtx

\* a prefill batch that asks for the logits of every position
PromptBatchAllLogits(toks) ==
    [i \in 1..Len(toks) |->
        [token |-> toks[i], pos |-> i - 1, logits |-> TRUE, seq_id |-> 0]]

\* decode_prompt's batch: token i at position i, sequence id 0, logits for
\* the last token only
PromptBatch(toks) ==
    [i \in 1..Len(toks) |->
        [token |-> toks[i], pos |-> i - 1,
         logits |-> (i - 1 = Len(toks) - 1), seq_id |-> 0]]

\* a single-token batch one position too far
NextBatchSkipping(tok, pos) ==
    <<[token |-> tok, pos |-> pos + 1, logits |-> TRUE, seq_id |-> 0]>>

\* generate_tokens' single-token batch
NextBatch(tok, pos) ==
    <<[token |-> tok, pos |-> pos, logits |-> TRUE, seq_id |-> 0]>>

\* llama_decode returns 0 on success and another value on failure
DecodeResults == {0, 1}
\* a decode that is never taken to have failed
DecodeNeverFailed(decode_result) == FALSE

\* lines 172 and 236
DecodeFailed(decode_result) == decode_result # 0

\* what a decode leaves in the context memory: the batch's positions on
\* success, nothing new on failure
MemoryAfterDecode(mem, batch, decode_result) ==
    IF decode_result = 0
    THEN mem \cup {batch[i].pos : i \in 1..Len(batch)}
    ELSE mem

\* the loop test left out
LoopNeverEnds(n, max) == TRUE

\* the loop test with <= for <
LoopContinuesOneMore(n, max) == n <= max

\* while (n_generated < max_tokens)
LoopContinues(n, max) == n < max

\* stopping at the second end-of-sequence token
StopOnSecondEos(count) == count >= 2

\* if (eos_count >= 1) break;
StopOnEos(count) == count >= 1

\* a test for an invalid token that never finds one
NoTokenInvalid(tok) == FALSE

\* if (new_token < 0) break;
IsInvalidToken(tok) == tok < 0

\* an append that does not look at the length the conversion returned
AppendPieceUnchecked(resp, piece) ==
    resp \o (IF piece.n > 0 THEN piece.text ELSE <<"?">>)

\* if (n > 0) response.append(piece)
AppendPiece(resp, piece) ==
    IF piece.n > 0 THEN resp \o piece.text ELSE resp

\* a failed single-token decode that throws, as the prefill does
DecodeStepFailureThrows == "throw"

\* what the failed single-token decode does to the loop: break, and
\* generate_tokens returns the response
DecodeStepFailure == "break"

\* a decode failure that discards the text
ReturnedTextDroppedOnFailure(resp, stop) ==
    IF stop = "DecodeFailure" THEN <<>> ELSE resp

\* return response;
ReturnedText(resp, stop) == resp

(***************************************************************************)
(* generate, step by step.  A thread is at                                 *)
(*   idle      not in generate                                             *)
(*   wait      at line 67, blocked on the mutex                            *)
(*   clear     lines 73-78       tokenize  lines 85-86, 130-155            *)
(*   check     lines 89-92       prefill   lines 96, 157-176               *)
(*   accept    lines 100-106     loop      line 184                        *)
(*   examine   lines 193-222     decode    lines 225-242                   *)
(*   ret       lines 245-248, 107-109                                      *)
(*   returned / thrown: the result is built, the lock_guard not yet        *)
(*   destroyed                                                             *)
(***************************************************************************)
InSession == {"clear", "tokenize", "check", "prefill", "accept", "loop",
              "examine", "decode", "ret", "returned", "thrown"}

\* throw std::runtime_error(what): the locals are destroyed
Throw(t, what) ==
    /\ pc' = [pc EXCEPT ![t] = "thrown"]
    /\ outcome' = [outcome EXCEPT ![t] = [kind |-> "error", text |-> <<>>, what |-> what]]

\* a request thread calls generate(prompt, max_tokens) and blocks at line 67.
\* The arguments are first read inside the critical section (the prompt at
\* line 85, max_tokens at line 106): their values are drawn there
Call(t) ==
    /\ pc[t] = "idle"
    /\ pc' = [pc EXCEPT ![t] = "wait"]
    /\ obs' = [obs EXCEPT ![t] = NoObs]
    /\ outcome' = [outcome EXCEPT ![t] = NoOutcome]
    /\ UNCHANGED <<inference_mutex, ctx_memory, sampler_state, max_tokens, locals>>
    /\ UNCHANGED <<sampler_chain, extVars, perVars, attVars>>

\* line 67: the lock_guard acquires the mutex
Lock(t) ==
    /\ pc[t] = "wait"
    /\ MutexFree(inference_mutex)
    /\ inference_mutex' = t
    /\ \E mt \in MaxTokensValues : max_tokens' = [max_tokens EXCEPT ![t] = mt]
    /\ pc' = [pc EXCEPT ![t] = "clear"]
    /\ UNCHANGED <<ctx_memory, sampler_state, locals, outcome, obs>>
    /\ UNCHANGED <<sampler_chain, extVars, perVars, attVars>>

\* lines 73-78
ClearAndReset(t) ==
    /\ pc[t] = "clear"
    /\ IF ~ModelAndCtxInitialized
       THEN /\ Throw(t, "NotInitialized")
            /\ UNCHANGED <<ctx_memory, sampler_state, obs>>
       ELSE /\ ctx_memory' = llama_memory_clear(ctx_memory)
            /\ sampler_state' = llama_sampler_reset(sampler_state)
            /\ obs' = [obs EXCEPT ![t].clears = @ + 1, ![t].resets = @ + 1,
                                  ![t].dirty = (ctx_memory # {} /\ sampler_state # <<>>)]
            /\ pc' = [pc EXCEPT ![t] = "tokenize"]
            /\ UNCHANGED outcome
    /\ UNCHANGED <<inference_mutex, max_tokens, locals>>
    /\ UNCHANGED <<sampler_chain, extVars, perVars, attVars>>

\* lines 85-86 and tokenize_prompt: llama_tokenize reports a negative count,
\* or the prompt's tokens
Tokenize(t) ==
    /\ pc[t] = "tokenize"
    /\ \/ /\ Throw(t, "TokenizeFailed")
          /\ obs' = [obs EXCEPT ![t].tokenized = TRUE]
          /\ UNCHANGED tokens
       \/ \E toks \in PromptTokenSeqs :
            /\ tokens' = [tokens EXCEPT ![t] = toks]
            /\ obs' = [obs EXCEPT ![t].tokenized = TRUE, ![t].n_tokens = Len(toks)]
            /\ pc' = [pc EXCEPT ![t] = "check"]
            /\ UNCHANGED outcome
    /\ UNCHANGED <<inference_mutex, ctx_memory, sampler_state, max_tokens,
                   response, n_generated, cur_pos, eos_count, new_token>>
    /\ UNCHANGED <<sampler_chain, extVars, perVars, attVars>>

\* lines 89-92
CapacityCheck(t) ==
    /\ pc[t] = "check"
    /\ IF PromptTooLong(Len(tokens[t]))
       THEN Throw(t, "ContextOverflow")
       ELSE /\ pc' = [pc EXCEPT ![t] = "prefill"]
            /\ UNCHANGED outcome
    /\ UNCHANGED <<inference_mutex, ctx_memory, sampler_state, max_tokens, locals, obs>>
    /\ UNCHANGED <<sampler_chain, extVars, perVars, attVars>>

\* line 96 and decode_prompt
DecodePrompt(t) ==
    /\ pc[t] = "prefill"
    /\ \E decode_result \in DecodeResults :
         LET batch == PromptBatch(tokens[t]) IN
         /\ ctx_memory' = MemoryAfterDecode(ctx_memory, batch, decode_result)
         /\ obs' = [obs EXCEPT ![t].batches =
                       Append(@, [kind |-> "prefill", batch |-> batch,
                                  rc |-> decode_result,
                                  mem |-> ctx_memory, hist |-> sampler_state])]
         /\ IF DecodeFailed(decode_result)
            THEN Throw(t, "DecodeFailed")
            ELSE /\ pc' = [pc EXCEPT ![t] = "accept"]
                 /\ UNCHANGED outcome
    /\ UNCHANGED <<inference_mutex, sampler_state, max_tokens, locals>>
    /\ UNCHANGED <<sampler_chain, extVars, perVars, attVars>>

RECURSIVE AcceptAllReversed(_, _)
\* the prompt's tokens accepted from the last to the first
AcceptAllReversed(s, toks) ==
    IF toks = <<>> THEN s
    ELSE llama_sampler_accept(AcceptAllReversed(s, Tail(toks)), Head(toks))

RECURSIVE AcceptAll(_, _)
\* for (auto t : tokens) llama_sampler_accept(sampler_state.get(), t);
AcceptAll(s, toks) ==
    IF toks = <<>> THEN s
    ELSE AcceptAll(llama_sampler_accept(s, Head(toks)), Tail(toks))

\* lines 100-106 and the locals of generate_tokens, lines 179-182
AcceptPrompt(t) ==
    /\ pc[t] = "accept"
    /\ sampler_state' = AcceptAll(sampler_state, tokens[t])
    /\ obs' = [obs EXCEPT ![t].accepted = @ \o tokens[t]]
    /\ response' = [response EXCEPT ![t] = <<>>]
    /\ n_generated' = [n_generated EXCEPT ![t] = 0]
    /\ cur_pos' = [cur_pos EXCEPT ![t] = Len(tokens[t])]
    /\ eos_count' = [eos_count EXCEPT ![t] = 0]
    /\ pc' = [pc EXCEPT ![t] = "loop"]
    /\ UNCHANGED <<inference_mutex, ctx_memory, max_tokens, tokens, new_token, outcome>>
    /\ UNCHANGED <<sampler_chain, extVars, perVars, attVars>>

\* lines 184-185: the loop test passes and llama_sampler_sample draws a token
\* through the chain's stages
Sample(t) ==
    /\ pc[t] = "loop"
    /\ LoopContinues(n_generated[t], max_tokens[t])
    /\ \E tok \in SampleValues :
         /\ new_token' = [new_token EXCEPT ![t] = tok]
         /\ obs' = [obs EXCEPT ![t].sampled = Append(@, tok),
                               ![t].via = Append(@, sampler_chain)]
    /\ pc' = [pc EXCEPT ![t] = "examine"]
    /\ UNCHANGED <<inference_mutex, ctx_memory, sampler_state, max_tokens, tokens,
                   response, n_generated, cur_pos, eos_count, outcome>>
    /\ UNCHANGED <<sampler_chain, extVars, perVars, attVars>>

\* line 184: the loop test fails
LoopExit(t) ==
    /\ pc[t] = "loop"
    /\ ~LoopContinues(n_generated[t], max_tokens[t])
    /\ obs' = [obs EXCEPT ![t].stop = "MaxTokensReached"]
    /\ pc' = [pc EXCEPT ![t] = "ret"]
    /\ UNCHANGED <<inference_mutex, ctx_memory, sampler_state, max_tokens, locals, outcome>>
    /\ UNCHANGED <<sampler_chain, extVars, perVars, attVars>>

\* lines 193-222: the end-of-sequence test, the invalid-token test, the
\* conversion to text and the sampler's accept
Examine(t) ==
    /\ pc[t] = "examine"
    /\ LET tok == new_token[t]
           isEos == tok = llama_vocab_eos
           count == IF isEos THEN eos_count[t] + 1 ELSE eos_count[t]
       IN /\ eos_count' = [eos_count EXCEPT ![t] = count]
          /\ IF isEos /\ StopOnEos(count)
             THEN /\ obs' = [obs EXCEPT ![t].stop = "EndOfSequence"]
                  /\ pc' = [pc EXCEPT ![t] = "ret"]
                  /\ UNCHANGED <<response, sampler_state>>
             ELSE IF IsInvalidToken(tok)
             THEN /\ obs' = [obs EXCEPT ![t].stop = "InvalidToken"]
                  /\ pc' = [pc EXCEPT ![t] = "ret"]
                  /\ UNCHANGED <<response, sampler_state>>
             ELSE /\ response' = [response EXCEPT ![t] =
                                     AppendPiece(@, llama_token_to_piece(tok))]
                  /\ sampler_state' = llama_sampler_accept(sampler_state, tok)
                  /\ obs' = [obs EXCEPT ![t].pieces = Append(@, tok),
                                        ![t].accepted = Append(@, tok)]
                  /\ pc' = [pc EXCEPT ![t] = "decode"]
    /\ UNCHANGED <<inference_mutex, ctx_memory, max_tokens, tokens, n_generated,
                   cur_pos, new_token, outcome>>
    /\ UNCHANGED <<sampler_chain, extVars, perVars, attVars>>

\* a token counted twice
CountEmittedTwice(n) == n + 2

\* line 242: ++n_generated
CountEmitted(n) == n + 1

\* lines 225-242: the single-token decode
DecodeStep(t) ==
    /\ pc[t] = "decode"
    /\ \E decode_result \in DecodeResults :
         LET batch == NextBatch(new_token[t], cur_pos[t]) IN
         /\ ctx_memory' = MemoryAfterDecode(ctx_memory, batch, decode_result)
         /\ obs' = [obs EXCEPT
                ![t].batches = Append(@, [kind |-> "step", batch |-> batch,
                                          rc |-> decode_result,
                                          mem |-> ctx_memory, hist |-> sampler_state]),
                ![t].stop = IF DecodeFailed(decode_result) /\ DecodeStepFailure = "break"
                            THEN "DecodeFailure" ELSE @]
         /\ IF DecodeFailed(decode_result)
            THEN IF DecodeStepFailure = "break"
                 THEN /\ pc' = [pc EXCEPT ![t] = "ret"]
                      /\ UNCHANGED <<cur_pos, n_generated, outcome>>
                 ELSE /\ Throw(t, "DecodeFailed")
                      /\ UNCHANGED <<cur_pos, n_generated>>
            ELSE /\ cur_pos' = [cur_pos EXCEPT ![t] = @ + 1]
                 /\ n_generated' = [n_generated EXCEPT ![t] = CountEmitted(@)]
                 /\ pc' = [pc EXCEPT ![t] = "loop"]
                 /\ UNCHANGED outcome
    /\ UNCHANGED <<inference_mutex, sampler_state, max_tokens, tokens, response,
                   eos_count, new_token>>
    /\ UNCHANGED <<sampler_chain, extVars, perVars, attVars>>

\* lines 245-248 and 107-109: generate_tokens returns response, generate
\* returns it
Return(t) ==
    /\ pc[t] = "ret"
    /\ outcome' = [outcome EXCEPT ![t] =
                      [kind |-> "text",
                       text |-> ReturnedText(response[t], obs[t].stop),
                       what |-> "none"]]
    /\ pc' = [pc EXCEPT ![t] = "returned"]
    /\ UNCHANGED <<inference_mutex, ctx_memory, sampler_state, max_tokens, locals, obs>>
    /\ UNCHANGED <<sampler_chain, extVars, perVars, attVars>>

\* a lock that stays held when generate is left by an exception
ReleaseOnReturnOnly(holder, how) == IF how = "thrown" THEN holder ELSE NoThread

\* the mutex after the lock_guard of line 67 is destroyed: released, however
\* the scope is left
lock_guard_release(holder, how) == NoThread

\* the lock_guard's destructor, on return and on throw alike; the frame is gone
Unlock(t) ==
    /\ pc[t] \in {"returned", "thrown"}
    /\ inference_mutex' = lock_guard_release(t, pc[t])
    /\ pc' = [pc EXCEPT ![t] = "idle"]
    /\ max_tokens' = [max_tokens EXCEPT ![t] = 0]
    /\ tokens' = [tokens EXCEPT ![t] = <<>>]
    /\ response' = [response EXCEPT ![t] = <<>>]
    /\ n_generated' = [n_generated EXCEPT ![t] = 0]
    /\ cur_pos' = [cur_pos EXCEPT ![t] = 0]
    /\ eos_count' = [eos_count EXCEPT ![t] = 0]
    /\ new_token' = [new_token EXCEPT ![t] = 0]
    /\ outcome' = [outcome EXCEPT ![t] = NoOutcome]
    /\ obs' = [obs EXCEPT ![t] = NoObs]
    /\ UNCHANGED <<ctx_memory, sampler_state>>
    /\ UNCHANGED <<sampler_chain, extVars, perVars, attVars>>

\* a step of the thread that holds the lock
SessionStep(t) ==
    \/ ClearAndReset(t)
    \/ Tokenize(t)
    \/ CapacityCheck(t)
    \/ DecodePrompt(t)
    \/ AcceptPrompt(t)
    \/ Sample(t)
    \/ LoopExit(t)
    \/ Examine(t)
    \/ DecodeStep(t)
    \/ Return(t)
    \/ Unlock(t)

GenNext ==
    \E t \in Threads :
        \/ Call(t)
        \/ Lock(t)
        \/ ClearAndReset(t)
        \/ Tokenize(t)
        \/ CapacityCheck(t)
        \/ DecodePrompt(t)
        \/ AcceptPrompt(t)
        \/ Sample(t)
        \/ LoopExit(t)
        \/ Examine(t)
        \/ DecodeStep(t)
        \/ Return(t)
        \/ Unlock(t)


(***************************************************************************)
(* The text a model produces.  A text is a sequence of symbols, each one   *)
(* byte or one run of bytes that the extractors never look into: the       *)
(* fence opener, a word, a number.  Indices are those of std::string,      *)
(* from 0.                                                                 *)
(***************************************************************************)
\* the seven bytes of the fenced code-block opener (three backticks, json)
FENCE == "FENCE"
\* three backticks
TICKS == "TICKS"
\* one backtick
BT == "BT"
LF == "\n"
CR == "\r"
SP == " "
TAB == "\t"
LB == "{"
RB == "}"
LBR == "["
RBR == "]"
COMMA == ","
COLON == ":"
\* the double-quote byte
QT == "QUOTE"
\* the two bytes of a UTF-8 non-breaking space
xC2 == "xC2"
xA0 == "xA0"

\* std::string::npos
npos == -1

\* the 0-based index of the first occurrence of the symbol c at or after
\* from, or npos
RECURSIVE FindFrom(_, _, _)
FindFrom(str, c, from) ==
    IF from >= Len(str) THEN npos
    ELSE IF str[from + 1] = c THEN from
    ELSE FindFrom(str, c, from + 1)

\* std::string::find
Find(str, c) == FindFrom(str, c, 0)

\* std::string::rfind
RECURSIVE RFindFrom(_, _, _)
RFindFrom(str, c, from) ==
    IF from < 0 THEN npos
    ELSE IF str[from + 1] = c THEN from
    ELSE RFindFrom(str, c, from - 1)

RFind(str, c) == RFindFrom(str, c, Len(str) - 1)

\* std::string::substr(pos, count), pos <= size
Substr(str, pos, count) ==
    LET last == IF pos + count > Len(str) THEN Len(str) ELSE pos + count
    IN  [i \in 1..(last - pos) |-> str[pos + i]]

\* no symbol skipped behind the fence opener
NoSkipAfterFence(str, start) == start

\* the loop after "start_marker += 7": skip newlines, carriage returns, spaces
RECURSIVE SkipAfterFence(_, _)
SkipAfterFence(str, start) ==
    IF start < Len(str) /\ str[start + 1] \in {LF, CR, SP}
    THEN SkipAfterFence(str, start + 1)
    ELSE start

\* the fence opener ignored: the start is the first opening brace
StartMarkerBraceOnly(text) == Find(text, LB)

\* lines 181-191 (230-240, 305-315): the start of the payload
StartMarker(text) ==
    LET fence == Find(text, FENCE)
    IN  IF fence = npos
        THEN Find(text, LB)
        ELSE SkipAfterFence(text, fence + 1)

\* the end put at the first closing brace
EndMarkerFirstBrace(text) == Find(text, RB)

\* line 193: the end of the payload
EndMarker(text) == RFind(text, RB)

\* lines 195-196
ValidSpan(start_marker, end_marker) ==
    /\ start_marker # npos
    /\ end_marker # npos
    /\ end_marker > start_marker

\* lines 199-203: pop trailing backticks, newlines, carriage returns, spaces
RECURSIVE StripTail(_)
StripTail(json_str) ==
    IF json_str # <<>> /\ json_str[Len(json_str)] \in {BT, TICKS, LF, CR, SP}
    THEN StripTail(SubSeq(json_str, 1, Len(json_str) - 1))
    ELSE json_str

\* json_str.find("\xC2\xA0")
RECURSIVE FindNbspFrom(_, _)
FindNbspFrom(str, from) ==
    IF from + 1 >= Len(str) THEN npos
    ELSE IF str[from + 1] = xC2 /\ str[from + 2] = xA0 THEN from
    ELSE FindNbspFrom(str, from + 1)

\* json_str.replace(pos, 2, " ")
ReplaceNbspAt(str, pos) ==
    SubSeq(str, 1, pos) \o <<SP>> \o SubSeq(str, pos + 3, Len(str))

\* the loop left after its first replacement
ReplaceNbspOnce(json_str) ==
    IF FindNbspFrom(json_str, 0) = npos THEN json_str
    ELSE ReplaceNbspAt(json_str, FindNbspFrom(json_str, 0))

\* lines 208-210
RECURSIVE ReplaceNbsp(_)
ReplaceNbsp(json_str) ==
    LET pos == FindNbspFrom(json_str, 0)
    IN  IF pos = npos THEN json_str ELSE ReplaceNbsp(ReplaceNbspAt(json_str, pos))

\* lines 197-210: the cleaned slice
CleanedSlice(text, start_marker, end_marker) ==
    ReplaceNbsp(StripTail(Substr(text, start_marker,
                                 end_marker - start_marker + 1)))

(***************************************************************************)
(* nlohmann::json, as far as the extractors use it.  A number is kept in   *)
(* tenths (0.5 is 5, 1.7 is 17).  An object maps its keys, each a string   *)
(* (a sequence of symbols), to values; a repeated key keeps its last       *)
(* value.                                                                  *)
(***************************************************************************)
JNull == [type |-> "null"]
JNum(tenths) == [type |-> "number", num |-> tenths]
JStr(str) == [type |-> "string", str |-> str]
JArr(items) == [type |-> "array", items |-> items]
JObj(members) == [type |-> "object", members |-> members]
NoMembers == [k \in {} |-> JNull]

\* the number lexemes of the texts considered and their values in tenths;
\* "1e999" is not finite as a double
NumberTenths ==
    [lex \in {"-0.3", "0", "0.5", "0.9", "1", "1.7", "5"} |->
        CASE lex = "-0.3" -> -3
          [] lex = "0"    -> 0
          [] lex = "0.5"  -> 5
          [] lex = "0.9"  -> 9
          [] lex = "1"    -> 10
          [] lex = "1.7"  -> 17
          [] lex = "5"    -> 50]
OverflowNumber == "1e999"

JsonWhitespace == {SP, LF, CR, TAB}

RECURSIVE SkipWs(_)
SkipWs(str) ==
    IF str # <<>> /\ Head(str) \in JsonWhitespace THEN SkipWs(Tail(str)) ELSE str

\* the content of a string literal is valid when it holds no raw control
\* character and is well-formed UTF-8: 0xC2 only before 0xA0, 0xA0 only
\* after 0xC2
ValidStringContent(c) ==
    \A i \in 1..Len(c) :
        /\ c[i] \notin {LF, CR, TAB, QT}
        /\ c[i] = xC2 => (i < Len(c) /\ c[i + 1] = xA0)
        /\ c[i] = xA0 => (i > 1 /\ c[i - 1] = xC2)

\* a parse step's result: status is "ok", "parse_error" (json::parse_error)
\* or "out_of_range" (json::out_of_range, error 406)
ParseOk(val, rest) == [status |-> "ok", val |-> val, rest |-> rest]
ParseFail(status) == [status |-> status, val |-> JNull, rest |-> <<>>]

\* the bytes of a run of symbols as one std::string
RECURSIVE Bytes(_)
Bytes(str) == IF str = <<>> THEN "" ELSE Head(str) \o Bytes(Tail(str))

\* str starts with the opening quote; the value is the content between the
\* quotes, as one run of bytes
ParseString(str) ==
    LET close == Find(Tail(str), QT)
        content == Substr(Tail(str), 0, close)
    IN  IF close = npos \/ ~ValidStringContent(content)
        THEN ParseFail("parse_error")
        ELSE ParseOk(JStr(<<Bytes(content)>>), SubSeq(str, close + 3, Len(str)))

RECURSIVE ParseValue(_), ParseMembers(_, _), ParseElements(_, _)

\* after "{" or ",": a key, a colon, a value, then "," or "}"
ParseMembers(str, acc) ==
    LET s1 == SkipWs(str)
    IN  IF s1 = <<>> \/ Head(s1) # QT THEN ParseFail("parse_error")
        ELSE LET key == ParseString(s1)
                 s2 == SkipWs(key.rest)
             IN  IF key.status # "ok" THEN key
                 ELSE IF s2 = <<>> \/ Head(s2) # COLON THEN ParseFail("parse_error")
                 ELSE LET v == ParseValue(Tail(s2))
                          s3 == SkipWs(v.rest)
                          acc2 == [k \in DOMAIN acc \cup {key.val.str} |->
                                      IF k = key.val.str THEN v.val ELSE acc[k]]
                      IN  IF v.status # "ok" THEN v
                          ELSE IF s3 = <<>> THEN ParseFail("parse_error")
                          ELSE IF Head(s3) = COMMA THEN ParseMembers(Tail(s3), acc2)
                          ELSE IF Head(s3) = RB THEN ParseOk(JObj(acc2), Tail(s3))
                          ELSE ParseFail("parse_error")

\* after "[" or ",": a value, then "," or "]"
ParseElements(str, acc) ==
    LET v == ParseValue(str)
        s1 == SkipWs(v.rest)
    IN  IF v.status # "ok" THEN v
        ELSE IF s1 = <<>> THEN ParseFail("parse_error")
        ELSE IF Head(s1) = COMMA THEN ParseElements(Tail(s1), Append(acc, v.val))
        ELSE IF Head(s1) = RBR THEN ParseOk(JArr(Append(acc, v.val)), Tail(s1))
        ELSE ParseFail("parse_error")

ParseValue(str) ==
    LET s1 == SkipWs(str)
    IN  IF s1 = <<>> THEN ParseFail("parse_error")
        ELSE IF Head(s1) = LB
        THEN LET s2 == SkipWs(Tail(s1))
             IN  IF s2 # <<>> /\ Head(s2) = RB
                 THEN ParseOk(JObj(NoMembers), Tail(s2))
                 ELSE ParseMembers(s2, NoMembers)
        ELSE IF Head(s1) = LBR
        THEN LET s2 == SkipWs(Tail(s1))
             IN  IF s2 # <<>> /\ Head(s2) = RBR
                 THEN ParseOk(JArr(<<>>), Tail(s2))
                 ELSE ParseElements(s2, <<>>)
        ELSE IF Head(s1) = QT THEN ParseString(s1)
        ELSE IF Head(s1) \in DOMAIN NumberTenths
        THEN ParseOk(JNum(NumberTenths[Head(s1)]), Tail(s1))
        ELSE IF Head(s1) = OverflowNumber THEN ParseFail("out_of_range")
        ELSE IF Head(s1) = "null" THEN ParseOk(JNull, Tail(s1))
        ELSE ParseFail("parse_error")

\* json::parse(json_str): one value, then only whitespace
json_parse(json_str) ==
    LET v == ParseValue(json_str)
    IN  IF v.status # "ok" THEN v
        ELSE IF SkipWs(v.rest) # <<>> THEN ParseFail("parse_error")
        ELSE v

\* basic_json::value(key, default) with a std::string default: the default
\* when the key is absent, the member when it is a string, else
\* json::type_error (302)
value_string(parsed, key, default) ==
    IF parsed.type # "object" THEN [status |-> "type_error", val |-> default]
    ELSE IF key \notin DOMAIN parsed.members THEN [status |-> "ok", val |-> default]
    ELSE IF parsed.members[key].type = "string"
    THEN [status |-> "ok", val |-> parsed.members[key].str]
    ELSE [status |-> "type_error", val |-> default]

\* basic_json::value(key, default) with a double default
value_double(parsed, key, default) ==
    IF parsed.type # "object" THEN [status |-> "type_error", val |-> default]
    ELSE IF key \notin DOMAIN parsed.members THEN [status |-> "ok", val |-> default]
    ELSE IF parsed.members[key].type = "number"
    THEN [status |-> "ok", val |-> parsed.members[key].num]
    ELSE [status |-> "type_error", val |-> default]

(***************************************************************************)
(* basic_json::dump(2), the serialization the handlers send (lines 612,    *)
(* 695, 774): two spaces of indentation per level, one member or element   *)
(* per line, "key": value.  nlohmann writes the members in the order of    *)
(* their keys; json_parse does not depend on the order, and the order      *)
(* taken here is a fixed one.                                              *)
(***************************************************************************)
\* the lexeme of a number
DumpNumber(tenths) ==
    CHOOSE lex \in DOMAIN NumberTenths : NumberTenths[lex] = tenths

\* a line break and the indentation of the level
RECURSIVE Indent(_)
Indent(level) == IF level = 0 THEN <<>> ELSE <<SP, SP>> \o Indent(level - 1)

NewLine(level) == <<LF>> \o Indent(level)

RECURSIVE DumpValue(_, _), DumpMembers(_, _, _), DumpItems(_, _)

DumpMembers(members, keys, level) ==
    LET k == CHOOSE key \in keys : TRUE
    IN  NewLine(level) \o <<QT>> \o k \o <<QT, COLON, SP>>
        \o DumpValue(members[k], level)
        \o (IF keys = {k} THEN <<>>
            ELSE <<COMMA>> \o DumpMembers(members, keys \ {k}, level))

DumpItems(items, level) ==
    NewLine(level) \o DumpValue(Head(items), level)
    \o (IF Len(items) = 1 THEN <<>> ELSE <<COMMA>> \o DumpItems(Tail(items), level))

DumpValue(val, level) ==
    CASE val.type = "null" -> <<"null">>
      [] val.type = "number" -> <<DumpNumber(val.num)>>
      [] val.type = "string" -> <<QT>> \o val.str \o <<QT>>
      [] val.type = "array" ->
            IF val.items = <<>> THEN <<LBR, RBR>>
            ELSE <<LBR>> \o DumpItems(val.items, level + 1) \o NewLine(level) \o <<RBR>>
      [] val.type = "object" ->
            IF DOMAIN val.members = {} THEN <<LB, RB>>
            ELSE <<LB>> \o DumpMembers(val.members, DOMAIN val.members, level + 1)
                 \o NewLine(level) \o <<RB>>

dump(val) == DumpValue(val, 0)

(***************************************************************************)
(* The three extractors.  Each returns a json value, or lets an exception  *)
(* that is not a json::parse_error leave it.                               *)
(***************************************************************************)
Returned(rec) == [kind |-> "record", rec |-> rec, what |-> "none"]
Raised(what) == [kind |-> "raised", rec |-> JNull, what |-> what]
Pending == [kind |-> "pending", rec |-> JNull, what |-> "none"]

Key(name) == <<name>>
Text(word) == <<word>>

\* the members of a two-member object
Members2(k1, v1, k2, v2) ==
    [k \in {Key(k1), Key(k2)} |-> IF k = Key(k1) THEN v1 ELSE v2]

\* lines 222-225
CvFallback ==
    JObj([k \in {Key("name"), Key("position"), Key("skills"), Key("experience"),
                 Key("education")} |->
            IF k = Key("skills") THEN JArr(<<>>) ELSE JStr(Text("Unknown"))])

\* lines 269-272
DraftFallback ==
    JObj(Members2("subject", JStr(Text("Re: [Subject]")),
                  "draft_reply", JStr(Text("Unable to generate reply. Please try again."))))

\* the default of lines 340 and 357
DefaultCategory == Text("FYI / Low Priority")
\* a fallback confidence outside [0.0, 1.0], which the clamp would change
DefaultConfidenceOutOfRange == 10 + 7

\* the default of line 360, in tenths
DefaultConfidence == 5

\* lines 375-378
ClassificationFallback ==
    JObj(Members2("category", JStr(DefaultCategory), "confidence", JNum(DefaultConfidence)))

\* lines 341-346
valid_categories ==
    {Text("Urgent & Action Required"), Text("Normal Follow-up"),
     Text("FYI / Low Priority"), Text("Spam")}

\* the parsed category kept as it is
CategoryAsParsed(category) == category

\* lines 348-358
ValidatedCategory(category) ==
    IF category \in valid_categories THEN category ELSE DefaultCategory

\* the clamp left out: the parsed confidence as it is
ClampNothing(confidence) == confidence

\* lines 361-362, in tenths
ClampConfidence(confidence) ==
    IF confidence < 0 THEN 0 ELSE IF confidence > 10 THEN 10 ELSE confidence

\* lines 212-217 (261-266): try { return json::parse(json_str); } catch
\* (const json::parse_error&): the parsed value as it is, the fallback on a
\* parse error; any other exception leaves the function
ParsedOrFallback(json_str, fallback) ==
    LET p == json_parse(json_str)
    IN  IF p.status = "ok" THEN Returned(p.val)
        ELSE IF p.status = "parse_error" THEN Returned(fallback)
        ELSE Raised(p.status)

\* lines 180-226
parse_cv_metadata(text) ==
    LET start_marker == StartMarker(text)
        end_marker == EndMarker(text)
    IN  IF ValidSpan(start_marker, end_marker)
        THEN ParsedOrFallback(CleanedSlice(text, start_marker, end_marker),
                              CvFallback)
        ELSE Returned(CvFallback)

\* lines 229-273
parse_draft_reply(text) ==
    LET start_marker == StartMarker(text)
        end_marker == EndMarker(text)
    IN  IF ValidSpan(start_marker, end_marker)
        THEN ParsedOrFallback(CleanedSlice(text, start_marker, end_marker),
                              DraftFallback)
        ELSE Returned(DraftFallback)

\* lines 336-372: the body of the try block and its catch
ClassificationOf(json_str) ==
    LET p == json_parse(json_str)
        category == value_string(p.val, Key("category"), DefaultCategory)
        confidence == value_double(p.val, Key("confidence"), DefaultConfidence)
    IN  IF p.status = "parse_error" THEN Returned(ClassificationFallback)
        ELSE IF p.status # "ok" THEN Raised(p.status)
        ELSE IF category.status # "ok" THEN Raised(category.status)
        ELSE IF confidence.status # "ok" THEN Raised(confidence.status)
        ELSE Returned(JObj(Members2("category", JStr(ValidatedCategory(category.val)),
                                    "confidence", JNum(ClampConfidence(confidence.val)))))

\* lines 304-379
parse_classification(text) ==
    LET start_marker == StartMarker(text)
        end_marker == EndMarker(text)
    IN  IF ValidSpan(start_marker, end_marker)
        THEN ClassificationOf(CleanedSlice(text, start_marker, end_marker))
        ELSE Returned(ClassificationFallback)

\* reply_data["subject"] on a non-const json: the member, null when the
\* object has none
MemberOrNull(obj, key) ==
    IF key \in DOMAIN obj.members THEN obj.members[key] ELSE JNull

\* lines 685-702: the draft-reply handler's response from the parser's
\* result; an exception becomes a 500
DraftReplyResponse(reply) ==
    IF reply.kind = "raised" THEN [status |-> 500, subject |-> JNull, draft_reply |-> JNull]
    ELSE [status |-> 200,
          subject |-> MemberOrNull(reply.rec, Key("subject")),
          draft_reply |-> MemberOrNull(reply.rec, Key("draft_reply"))]

(***************************************************************************)
(* The texts considered: a payload between a prefix and a suffix, and      *)
(* every short text over the symbols the scan looks for.                   *)
(***************************************************************************)
Str(word) == <<QT, word, QT>>
Member(key, val) == <<QT, key, QT, COLON>> \o val
Object1(m1) == <<LB>> \o m1 \o <<RB>>
Object2(m1, m2) == <<LB>> \o m1 \o <<COMMA, SP>> \o m2 \o <<RB>>

CategoryMembers ==
    {Member("category", Str(w)) :
        w \in {"Urgent & Action Required", "Normal Follow-up", "FYI / Low Priority",
               "Spam", "Important"}}
    \cup {Member("category", <<"5">>), Member("category", <<"null">>)}

ConfidenceMembers ==
    {Member("confidence", <<n>>) : n \in {"-0.3", "0", "0.5", "0.9", "1", "1.7"}}
    \cup {Member("confidence", Str("high")), Member("confidence", <<OverflowNumber>>)}

ClassificationPayloads ==
    {Object2(c, f) : c \in CategoryMembers, f \in ConfidenceMembers}
    \cup {Object1(c) : c \in CategoryMembers}
    \cup {Object1(f) : f \in ConfidenceMembers}
    \cup {Object2(Member("confidence", <<"0.9">>), Member("category", Str("Spam"))),
          Object2(Member("category", Str("Spam")), Member("note", Str("x"))),
          Object2(Member("category", Str("Spam")), Member("category", Str("Important"))),
          <<LB, xC2, xA0>> \o Member("category", Str("Spam")) \o <<RB>>,
          <<LB>> \o Member("category", <<QT, "Normal", xC2, xA0, "Follow-up", QT>>) \o <<RB>>}

CvPayloads ==
    {<<LB>> \o Member("name", Str("Ada")) \o <<COMMA>> \o Member("position", Str("Dev"))
        \o <<COMMA>> \o Member("skills", <<LBR>> \o Str("C++") \o <<COMMA>> \o Str("TLA") \o <<RBR>>)
        \o <<COMMA>> \o Member("experience", Str("5 years"))
        \o <<COMMA>> \o Member("education", Str("BSc")) \o <<RB>>,
     Object2(Member("name", Str("Ada")), Member("skills", <<LBR, RBR>>)),
     Object1(Member("name", <<"null">>)),
     Object1(Member("experience", <<OverflowNumber>>))}

DraftPayloads ==
    {Object2(Member("subject", Str("Re: Hi")), Member("draft_reply", Str("Thanks"))),
     Object1(Member("subject", Str("Re: Hi"))),
     Object1(Member("draft_reply", Str("Thanks"))),
     Object2(Member("subject", <<"5">>), Member("draft_reply", <<"null">>))}

OtherPayloads ==
    {<<LB, RB>>,
     <<LB, SP, RB>>,
     <<LB, "x", RB>>,
     <<LB, QT, "category", QT, COLON, QT, "Spam", RB>>,
     <<LB>> \o Member("category", Str("Spam")) \o <<COMMA, RB>>,
     <<LB>> \o Member("a", Object1(Member("b", <<"1">>))) \o <<RB>>}

\* the longest run of non-breaking-space bytes and letters in a string value
MaxNbspLen == 4
\* a name whose value is any run of the bytes 0xC2, 0xA0 and a letter
NbspPayloads ==
    {Object1(Member("name", <<QT>> \o run \o <<QT>>)) :
        run \in UNION {[1..n -> {xC2, xA0, "a"}] : n \in 1..MaxNbspLen}}
    \cup {Object1(Member("name", <<QT, "Ada", xC2, xA0, "Lovelace", QT>>))}

Payloads ==
    ClassificationPayloads \cup CvPayloads \cup DraftPayloads \cup OtherPayloads
    \cup NbspPayloads

Prefixes ==
    {<<>>, <<"Sure", SP>>, <<FENCE, LF>>, <<"Sure", LF, FENCE, CR, LF, SP>>,
     <<FENCE, TAB>>, <<LB, SP>>, <<LB, RB, SP, FENCE, LF>>}

Suffixes ==
    {<<>>, <<LF, TICKS>>, <<LF, TICKS, LF, "trailing">>, <<SP, RB>>, <<LF, FENCE>>}

\* the longest text without a payload
MaxScanLen == 3
ScanSymbols == {FENCE, LB, RB, SP, "x"}
ScanTexts == UNION {[1..n -> ScanSymbols] : n \in 0..MaxScanLen}

\* the payloads tried between every prefix and every suffix
CorePayloads ==
    {Object2(Member("category", Str("Spam")), Member("confidence", <<"1.7">>)),
     Object2(Member("category", <<"5">>), Member("confidence", <<"0.9">>)),
     Object2(Member("subject", Str("Re: Hi")), Member("draft_reply", Str("Thanks"))),
     Object1(Member("name", Str("Ada"))),
     <<LB, RB>>,
     <<LB, "x", RB>>}

ModelOutputs ==
    {pre \o pay \o suf : pre \in Prefixes, pay \in CorePayloads, suf \in Suffixes}
    \cup {pre \o pay \o suf : pre \in {<<>>, <<FENCE, LF>>}, pay \in Payloads,
                               suf \in {<<>>, <<LF, TICKS>>}}
    \cup ScanTexts

ExtIdle ==
    /\ model_output = <<>>
    /\ metadata = Pending
    /\ reply_data = Pending
    /\ draft_response = Pending
    /\ classification_data = Pending

ExtInit ==
    /\ model_output \in ModelOutputs
    /\ metadata = Pending
    /\ reply_data = Pending
    /\ draft_response = Pending
    /\ classification_data = Pending

\* the detect-cv handler, line 599
DetectCv ==
    /\ metadata = Pending
    /\ metadata' = parse_cv_metadata(model_output)
    /\ UNCHANGED <<model_output, reply_data, draft_response, classification_data>>
    /\ UNCHANGED <<genVars, perVars, attVars>>

\* the draft-reply handler, lines 685-702
DraftReply ==
    /\ reply_data = Pending
    /\ reply_data' = parse_draft_reply(model_output)
    /\ draft_response' = DraftReplyResponse(parse_draft_reply(model_output))
    /\ UNCHANGED <<model_output, metadata, classification_data>>
    /\ UNCHANGED <<genVars, perVars, attVars>>

\* the classify handler, line 764
Classify ==
    /\ classification_data = Pending
    /\ classification_data' = parse_classification(model_output)
    /\ UNCHANGED <<model_output, metadata, reply_data, draft_response>>
    /\ UNCHANGED <<genVars, perVars, attVars>>

ExtNext == DetectCv \/ DraftReply \/ Classify

(***************************************************************************)
(* An extractor run again on what it returned: the record is serialized    *)
(* and the text is extracted anew.                                         *)
(***************************************************************************)
ResubmitCv ==
    /\ metadata.kind = "record"
    /\ model_output' = dump(metadata.rec)
    /\ metadata' = parse_cv_metadata(dump(metadata.rec))
    /\ reply_data' = Pending
    /\ draft_response' = Pending
    /\ classification_data' = Pending
    /\ UNCHANGED <<genVars, perVars, attVars>>

ResubmitDraft ==
    /\ reply_data.kind = "record"
    /\ model_output' = dump(reply_data.rec)
    /\ reply_data' = parse_draft_reply(dump(reply_data.rec))
    /\ draft_response' = DraftReplyResponse(parse_draft_reply(dump(reply_data.rec)))
    /\ metadata' = Pending
    /\ classification_data' = Pending
    /\ UNCHANGED <<genVars, perVars, attVars>>

ResubmitClassification ==
    /\ classification_data.kind = "record"
    /\ model_output' = dump(classification_data.rec)
    /\ classification_data' = parse_classification(dump(classification_data.rec))
    /\ metadata' = Pending
    /\ reply_data' = Pending
    /\ draft_response' = Pending
    /\ UNCHANGED <<genVars, perVars, attVars>>

RoundTripNext ==
    \/ ExtNext
    \/ ResubmitCv
    \/ ResubmitDraft
    \/ ResubmitClassification

(***************************************************************************)
(* The persona line.  A line is a sequence of symbols, each a byte the     *)
(* scan looks for (a space, a quote, a parenthesis), a marker, or a word   *)
(* that holds none of them; the length of a line is the number of its      *)
(* bytes.  The subject's name is one word, and a line holds the name only  *)
(* as that word.                                                           *)
(***************************************************************************)
LP == "("
RP == ")"
PersonaMarker == "Persona:"

\* line 309: a matching line is longer than this
MinPersonaLength == 50
\* line 421: a result shorter than this is replaced
MinResultLength == 20

\* the number of bytes of a symbol
SymLen(sym) ==
    CASE sym \in {QT, BT, xC2, xA0} -> 1
      [] sym = TICKS -> 3
      [] sym = FENCE -> 7
      [] OTHER -> Len(sym)

\* std::string::length
RECURSIVE Length(_)
Length(str) == IF str = <<>> THEN 0 ELSE SymLen(Head(str)) + Length(Tail(str))

\* the characters of line 298
TrimChars == {SP, LF, CR, TAB, QT}

\* line 298: erase(0, find_first_not_of(...))
RECURSIVE TrimLeft(_)
TrimLeft(line) ==
    IF line # <<>> /\ Head(line) \in TrimChars THEN TrimLeft(Tail(line)) ELSE line

\* line 299: erase(find_last_not_of(...) + 1)
RECURSIVE TrimRight(_)
TrimRight(line) ==
    IF line # <<>> /\ line[Len(line)] \in TrimChars
    THEN TrimRight(SubSeq(line, 1, Len(line) - 1))
    ELSE line

\* the front of the line trimmed, its end left as it is
TrimLeftOnly(line) == TrimLeft(line)

\* lines 298-299
Trim(line) == TrimRight(TrimLeft(line))

\* std::getline: the symbols up to the next line feed, which is consumed
getline(str) ==
    IF Find(str, LF) = npos
    THEN [line |-> str, rest |-> <<>>]
    ELSE [line |-> Substr(str, 0, Find(str, LF)),
          rest |-> SubSeq(str, Find(str, LF) + 2, Len(str))]

\* only the empty line skipped
SkipsEmptyOnly(line) == line = <<>>

\* line 304
SkippedLine(line) ==
    \/ line = <<>>
    \/ line = <<TICKS>>
    \/ Find(line, PersonaMarker) # npos

\* line.find(name) == 0
StartsWith(line, subject) ==
    /\ Len(subject) <= Len(line)
    /\ SubSeq(line, 1, Len(subject)) = subject

\* the first full match does not end the scan
NeverFullMatch(line, subject) == FALSE

\* line 309
FullMatch(line, subject) ==
    StartsWith(line, subject) /\ Length(line) > MinPersonaLength

\* lines 316-317
PersonaShaped(line) ==
    /\ Length(line) > MinPersonaLength
    /\ Find(line, LP) # npos
    /\ Find(line, RP) # npos

\* a candidate that is kept once it is found
KeepFirstCandidate(best, line) == IF best = <<>> THEN line ELSE best

\* line 318: best_line = line
RememberCandidate(best, line) == line

\* lines 328-337
create_fallback_persona(req) ==
    req.name
    \o <<" (">> \o req.position \o <<", ">> \o req.department
    \o <<"). Preferred language: ">> \o req.language
    \o <<". Professional tone inferred from writing samples. Direct communication style.">>

\* the fallback test never taken
NeverTooShort(str) == FALSE

\* line 421
TooShort(str) == str = <<>> \/ Length(str) < MinResultLength

\* the subject's name, a word of 42 bytes and the tail of the persona
\* sentence of the prompt's output format
JohnDoe == "John Doe"
Word42 == "writes short formal notes to the full team"
SentenceTail == ". Preferred language: English. Formal tone. Direct style."

\* the requests considered
Requests ==
    {[name |-> <<JohnDoe>>, position |-> <<"Engineer">>,
      department |-> <<"R&D">>, language |-> <<"English">>],
     [name |-> <<"Mona Said">>, position |-> <<"Analyst">>,
      department |-> <<"Finance">>, language |-> <<"Arabic">>]}

\* the lines considered, with their length after the trim
PersonaLines ==
    {<<>>,                                                  \* empty
     <<TICKS>>,                                             \* a bare fence marker
     <<PersonaMarker>>,                                     \* the prompt echo
     <<SP, JohnDoe, Word42>>,                               \* 50 after the trim
     <<JohnDoe, Word42, "x">>,                              \* 51, with the name
     <<JohnDoe, SP, LP, Word42, RP>>,                       \* 53, name and parentheses
     <<JohnDoe, SP, LP, Word42, RP, PersonaMarker>>,        \* name, parentheses, but the echo
     <<"x", JohnDoe, Word42>>,                              \* 51, name not in front
     <<Word42, LP, "Dev", RP, "xxx">>,                      \* 50, parentheses
     <<QT, Word42, LP, "Dev", RP, "xxxx", QT, CR>>,         \* 51 after the trim
     <<RP, Word42, "xxxxxxx", LP>>,                         \* 51, ")" before "("
     <<SP, SP, QT, JohnDoe, SP, LP, "Engineer, R&D", RP, SentenceTail, QT, SP, SP>>}

\* the most lines of a generated text
MaxLines == 3

\* lines joined by line feeds
RECURSIVE JoinLines(_)
JoinLines(lines) ==
    IF lines = <<>> THEN <<>>
    ELSE IF Len(lines) = 1 THEN Head(lines)
    ELSE Head(lines) \o <<LF>> \o JoinLines(Tail(lines))

RawOutputs ==
    {JoinLines(lines) : lines \in UNION {[1..n -> PersonaLines] : n \in 0..MaxLines}}

\* no request yet
NoRequest == [name |-> <<>>, position |-> <<>>, department |-> <<>>, language |-> <<>>]

PerIdle ==
    /\ input_json = NoRequest
    /\ raw_output = <<>>
    /\ stream = <<>>
    /\ line_count = 0
    /\ best_line = <<>>
    /\ persona_pc = "off"
    /\ persona_string = <<>>

PerInit ==
    /\ input_json \in Requests
    /\ raw_output \in RawOutputs
    /\ stream = <<>>
    /\ line_count = 0
    /\ best_line = <<>>
    /\ persona_pc = "idle"
    /\ persona_string = <<>>

\* lines 282-292: the call of line 419; an empty text returns "" at once
ExtractStart ==
    /\ persona_pc = "idle"
    /\ stream' = raw_output
    /\ line_count' = 0
    /\ best_line' = <<>>
    /\ persona_pc' = IF raw_output = <<>> THEN "extracted" ELSE "scan"
    /\ UNCHANGED <<input_json, raw_output, persona_string>>
    /\ UNCHANGED <<genVars, extVars, attVars>>

\* lines 294-321: one turn of the loop
ScanLine ==
    /\ persona_pc = "scan"
    /\ stream # <<>>
    /\ LET line == Trim(getline(stream).line)
       IN  /\ stream' = getline(stream).rest
           /\ line_count' = line_count + 1
           /\ IF SkippedLine(line)
              THEN UNCHANGED <<best_line, persona_pc>>
              ELSE IF FullMatch(line, input_json.name)
              THEN best_line' = line /\ persona_pc' = "extracted"
              ELSE IF PersonaShaped(line)
              THEN best_line' = RememberCandidate(best_line, line) /\ UNCHANGED persona_pc
              ELSE UNCHANGED <<best_line, persona_pc>>
    /\ UNCHANGED <<input_json, raw_output, persona_string>>
    /\ UNCHANGED <<genVars, extVars, attVars>>

\* line 294: std::getline fails at the end of the text; line 325
ScanEnd ==
    /\ persona_pc = "scan"
    /\ stream = <<>>
    /\ persona_pc' = "extracted"
    /\ UNCHANGED <<input_json, raw_output, stream, line_count, best_line, persona_string>>
    /\ UNCHANGED <<genVars, extVars, attVars>>

\* lines 419-436: the fallback test and the string of the response
FinishPersona ==
    /\ persona_pc = "extracted"
    /\ persona_string' = IF TooShort(best_line)
                         THEN create_fallback_persona(input_json)
                         ELSE best_line
    /\ persona_pc' = "done"
    /\ UNCHANGED <<input_json, raw_output, stream, line_count, best_line>>
    /\ UNCHANGED <<genVars, extVars, attVars>>

PerNext == ExtractStart \/ ScanLine \/ ScanEnd \/ FinishPersona

(***************************************************************************)
(* The attachment-processing server's temporary images.  Each request is   *)
(* served by one thread of the HTTP server; the three POST handlers render *)
(* every PDF attachment to an image in ../uploads/temp, hand the images to *)
(* the vision model and remove them.  No lock is taken anywhere.           *)
(***************************************************************************)
\* the request threads serving at the same time
NRequests == 2
Handlers == 1..NRequests

\* the most attachments of a request
MaxAttachments == 1

\* the attachment names considered
AttachmentNames ==
    {[stem |-> "cv", ext |-> ".pdf"],
     [stem |-> "offer", ext |-> ".PDF"],
     [stem |-> "notes", ext |-> ".txt"]}

AttachmentLists == UNION {[1..n -> AttachmentNames] : n \in 0..MaxAttachments}

Endpoints == {"detect-cv", "draft-reply", "classify"}

\* std::tolower on the last four characters
ToLower(ext) == IF ext = ".PDF" THEN ".pdf" ELSE ext

\* lines 73-78
is_pdf_file(filename) == ToLower(filename.ext) = ".pdf"

\* pdf_to_image, lines 104-112: the image is saved at output_dir + "/" + base_name + "_page1.png"
pdf_to_image(filename) == "../uploads/temp/" \o filename.stem \o "_page1.png"

TempPaths == {pdf_to_image(f) : f \in AttachmentNames}

\* no file at the path
NoFile == 0

AttIdle ==
    /\ req_pc = [h \in Handlers |-> "off"]
    /\ endpoint = [h \in Handlers |-> "detect-cv"]
    /\ attachments = [h \in Handlers |-> <<>>]
    /\ att_index = [h \in Handlers |-> 1]
    /\ image_paths = [h \in Handlers |-> <<>>]
    /\ files = [p \in TempPaths |-> NoFile]
    /\ given = [h \in Handlers |-> <<>>]

AttInit ==
    /\ req_pc = [h \in Handlers |-> "idle"]
    /\ endpoint = [h \in Handlers |-> "detect-cv"]
    /\ attachments = [h \in Handlers |-> <<>>]
    /\ att_index = [h \in Handlers |-> 1]
    /\ image_paths = [h \in Handlers |-> <<>>]
    /\ files = [p \in TempPaths |-> NoFile]
    /\ given = [h \in Handlers |-> <<>>]

\* lines 551-565 (622-647, 704-724): a request arrives with its attachments
Receive(h) ==
    /\ req_pc[h] = "idle"
    /\ \E e \in Endpoints, names \in AttachmentLists :
         /\ endpoint' = [endpoint EXCEPT ![h] = e]
         /\ attachments' = [attachments EXCEPT ![h] = names]
    /\ att_index' = [att_index EXCEPT ![h] = 1]
    /\ image_paths' = [image_paths EXCEPT ![h] = <<>>]
    /\ given' = [given EXCEPT ![h] = <<>>]
    /\ req_pc' = [req_pc EXCEPT ![h] = "attachments"]
    /\ UNCHANGED files
    /\ UNCHANGED <<genVars, extVars, perVars>>

\* lines 567-591 (649-676, 726-754): one turn of the loop over the
\* attachments: a PDF is rendered and saved by pdf_to_image; an attachment
\* that is no PDF, or whose rendering throws, is passed over
ConvertAttachment(h) ==
    /\ req_pc[h] = "attachments"
    /\ att_index[h] <= Len(attachments[h])
    /\ LET filename == attachments[h][att_index[h]]
           output_path == pdf_to_image(filename)
       IN  \/ /\ is_pdf_file(filename)
              /\ files' = [files EXCEPT ![output_path] = h]
              /\ image_paths' = [image_paths EXCEPT ![h] = Append(@, output_path)]
           \/ UNCHANGED <<files, image_paths>>
    /\ att_index' = [att_index EXCEPT ![h] = @ + 1]
    /\ UNCHANGED <<req_pc, endpoint, attachments, given>>
    /\ UNCHANGED <<genVars, extVars, perVars>>

\* lines 593-601: detect-cv calls the vision model only when an image was
\* rendered; the other two handlers always call it
EndAttachments(h) ==
    /\ req_pc[h] = "attachments"
    /\ att_index[h] > Len(attachments[h])
    /\ req_pc' = [req_pc EXCEPT ![h] =
                     IF endpoint[h] = "detect-cv" /\ image_paths[h] = <<>>
                     THEN "cleanup" ELSE "vision"]
    /\ UNCHANGED <<endpoint, attachments, att_index, image_paths, files, given>>
    /\ UNCHANGED <<genVars, extVars, perVars>>

\* process_cv_with_vision (and its two siblings): the command line names
\* every path of image_paths and the vision model reads them; whether the
\* call returns or throws, the handler goes on to cleanup_temp_images
RunVision(h) ==
    /\ req_pc[h] = "vision"
    /\ given' = [given EXCEPT ![h] =
                    [i \in 1..Len(image_paths[h]) |-> files[image_paths[h][i]]]]
    /\ req_pc' = [req_pc EXCEPT ![h] = "cleanup"]
    /\ UNCHANGED <<endpoint, attachments, att_index, image_paths, files>>
    /\ UNCHANGED <<genVars, extVars, perVars>>

\* lines 47-53, called at lines 603 and 615 (and their siblings): remove
\* every path of image_paths
cleanup_temp_images(dir, paths) ==
    [p \in DOMAIN dir |->
        IF \E i \in 1..Len(paths) : paths[i] = p THEN NoFile ELSE dir[p]]

CleanupTempImages(h) ==
    /\ req_pc[h] = "cleanup"
    /\ files' = cleanup_temp_images(files, image_paths[h])
    /\ req_pc' = [req_pc EXCEPT ![h] = "done"]
    /\ UNCHANGED <<endpoint, attachments, att_index, image_paths, given>>
    /\ UNCHANGED <<genVars, extVars, perVars>>

\* lines 605-612: the response is sent and the thread takes the next request
Respond(h) ==
    /\ req_pc[h] = "done"
    /\ req_pc' = [req_pc EXCEPT ![h] = "idle"]
    /\ endpoint' = [endpoint EXCEPT ![h] = "detect-cv"]
    /\ attachments' = [attachments EXCEPT ![h] = <<>>]
    /\ att_index' = [att_index EXCEPT ![h] = 1]
    /\ image_paths' = [image_paths EXCEPT ![h] = <<>>]
    /\ given' = [given EXCEPT ![h] = <<>>]
    /\ UNCHANGED files
    /\ UNCHANGED <<genVars, extVars, perVars>>

AttNext ==
    \E h \in Handlers :
        \/ Receive(h)
        \/ ConvertAttachment(h)
        \/ EndAttachments(h)
        \/ RunVision(h)
        \/ CleanupTempImages(h)
        \/ Respond(h)

(***************************************************************************)
(* Properties of generate.                                                 *)
(***************************************************************************)
StepDecodes(t) == SelectSeq(obs[t].batches, LAMBDA b : b.kind = "step")
PrefillDecodes(t) == SelectSeq(obs[t].batches, LAMBDA b : b.kind = "prefill")

\* C1: a prompt whose tokenized length is at least the context capacity is
\* rejected with ContextOverflow before any decode: no prefill, no accept, no
\* sample, no single-token decode happens in that session, the context
\* memory stays empty and no text is returned.
C1_OverflowRejectedBeforeDecode ==
    \A t \in Threads :
        obs[t].n_tokens >= NCtx =>
            /\ pc[t] \in {"check", "thrown"}
            /\ obs[t].batches = <<>>
            /\ obs[t].accepted = <<>>
            /\ obs[t].sampled = <<>>
            /\ obs[t].pieces = <<>>
            /\ ctx_memory = {}
            /\ sampler_state = <<>>
            /\ outcome[t].kind # "text"
            /\ pc[t] = "thrown" =>
                   outcome[t] = [kind |-> "error", text |-> <<>>, what |-> "ContextOverflow"]

C1_Witness ==
    \E t \in Threads :
        /\ obs[t].n_tokens = NCtx
        /\ pc[t] = "thrown"
        /\ outcome[t].what = "ContextOverflow"

\* C2: at most one thread is ever between acquiring the mutex and leaving
\* generate, and that thread holds the mutex: the steps of two calls never
\* interleave.
C2_OneSessionAtATime ==
    /\ Cardinality({t \in Threads : pc[t] \in InSession}) <= 1
    /\ \A t \in Threads : pc[t] \in InSession => inference_mutex = t

C2_Witness ==
    \E t, u \in Threads :
        /\ t # u
        /\ pc[t] = "decode"
        /\ pc[u] = "wait"

\* C3: in every session, whatever earlier sessions left behind, the context
\* memory is cleared and the sampler chain reset exactly once, before the
\* tokenization, the prefill and any accept or sample; the prefill finds no
\* position in the context memory and no accepted token in the sampler.
C3_ClearedAndResetOnce ==
    \A t \in Threads :
        /\ obs[t].clears <= 1
        /\ obs[t].resets <= 1
        /\ pc[t] \in (InSession \ {"clear"}) => (obs[t].clears = 1 /\ obs[t].resets = 1)
        /\ (obs[t].tokenized \/ obs[t].batches # <<>> \/ obs[t].accepted # <<>>
              \/ obs[t].sampled # <<>>) => (obs[t].clears = 1 /\ obs[t].resets = 1)
        /\ \A i \in 1..Len(obs[t].batches) :
               obs[t].batches[i].kind = "prefill" =>
                   (obs[t].batches[i].mem = {} /\ obs[t].batches[i].hist = <<>>)
        /\ pc[t] \in {"tokenize", "check", "prefill"} =>
               (ctx_memory = {} /\ sampler_state = <<>>)

C3_Witness ==
    \E t \in Threads :
        /\ obs[t].dirty
        /\ pc[t] = "accept"
        /\ Len(tokens[t]) >= 1

\* C4: the loop stops with EndOfSequence at the first sampled
\* end-of-sequence token: nothing is sampled after it, it is neither
\* converted to text, accepted nor decoded, and the response is what it was
\* before it.
C4_StopsAtFirstEos ==
    \A t \in Threads :
        LET s == obs[t].sampled IN
        /\ \A i \in 1..Len(s) : s[i] = llama_vocab_eos => i = Len(s)
        /\ (s # <<>> /\ s[Len(s)] = llama_vocab_eos /\ pc[t] # "examine") =>
               /\ obs[t].stop = "EndOfSequence"
               /\ pc[t] \in {"ret", "returned"}
               /\ Len(obs[t].pieces) = Len(s) - 1
               /\ Len(StepDecodes(t)) = Len(s) - 1
               /\ Len(obs[t].accepted) = Len(tokens[t]) + Len(s) - 1
               /\ \A i \in 1..Len(obs[t].pieces) : obs[t].pieces[i] # llama_vocab_eos
        /\ obs[t].stop = "EndOfSequence" => (s # <<>> /\ s[Len(s)] = llama_vocab_eos)

C4_Witness ==
    \E t \in Threads :
        /\ pc[t] = "returned"
        /\ obs[t].stop = "EndOfSequence"
        /\ Len(obs[t].sampled) = 2
        /\ outcome[t].text = <<"a">>

\* C5 as stated: a generation that stops at max_tokens has had exactly
\* max_tokens tokens accepted by the sampler chain.
C5_Original ==
    \A t \in Threads :
        (obs[t].stop = "MaxTokensReached" /\ max_tokens[t] >= 0) =>
            Len(obs[t].accepted) = max_tokens[t]

\* C5, amended: a generation that stops at max_tokens has had exactly
\* max_tokens generated tokens accepted by the sampler chain in the decode
\* loop, after the prompt's tokens: prompt_length + max_tokens accepts in all.
C5_AcceptedAtMaxTokens ==
    \A t \in Threads :
        (obs[t].stop = "MaxTokensReached" /\ max_tokens[t] >= 0) =>
            /\ Len(obs[t].pieces) = max_tokens[t]
            /\ Len(obs[t].accepted) = Len(tokens[t]) + max_tokens[t]
            /\ obs[t].accepted = tokens[t] \o obs[t].pieces
            /\ n_generated[t] = max_tokens[t]

C5_Witness ==
    \E t \in Threads :
        /\ pc[t] = "returned"
        /\ obs[t].stop = "MaxTokensReached"
        /\ max_tokens[t] = MaxTok
        /\ Len(tokens[t]) >= 1

\* the text of the pieces of a token sequence, in order
RECURSIVE PiecesText(_)
PiecesText(toks) ==
    IF toks = <<>> THEN <<>>
    ELSE (IF llama_token_to_piece(Head(toks)).n > 0
          THEN llama_token_to_piece(Head(toks)).text ELSE <<>>)
         \o PiecesText(Tail(toks))

\* the tokens emitted so far: those sampled, without the one that stopped the
\* loop (end of sequence, invalid) and without the one not yet examined
Emitted(t) ==
    LET s == obs[t].sampled
    IN  IF s # <<>> /\ (pc[t] = "examine" \/ obs[t].stop \in {"EndOfSequence", "InvalidToken"})
        THEN SubSeq(s, 1, Len(s) - 1)
        ELSE s

\* C6: whatever stops the loop, the returned text is the in-order
\* concatenation of the pieces of the tokens emitted before the stop.
C6_TextIsConcatenationOfPieces ==
    \A t \in Threads :
        /\ obs[t].pieces = Emitted(t)
        /\ pc[t] \in {"loop", "examine", "decode", "ret", "returned"} =>
               response[t] = PiecesText(Emitted(t))
        /\ pc[t] = "returned" =>
               /\ obs[t].stop \in {"EndOfSequence", "MaxTokensReached", "InvalidToken",
                                   "DecodeFailure"}
               /\ outcome[t].kind = "text"
               /\ outcome[t].text = PiecesText(Emitted(t))

C6_Witness ==
    \E t \in Threads :
        /\ pc[t] = "returned"
        /\ obs[t].stop = "DecodeFailure"
        /\ outcome[t].text = <<"a", "b">>

\* C7: a failure before any token is committed (tokenizer, capacity,
\* prefill) is raised with no text and no token sampled; a failure inside the
\* loop (negative token, failed single-token decode) never raises: generate
\* returns the text accumulated so far.
C7_ErrorPropagation ==
    \A t \in Threads :
        /\ pc[t] = "thrown" =>
               /\ outcome[t].kind = "error"
               /\ outcome[t].text = <<>>
               /\ obs[t].sampled = <<>>
               /\ obs[t].accepted = <<>>
               /\ \/ outcome[t].what = "TokenizeFailed" /\ obs[t].n_tokens < 0
                  \/ outcome[t].what = "ContextOverflow" /\ obs[t].n_tokens >= NCtx
                  \/ /\ outcome[t].what = "DecodeFailed"
                     /\ Len(obs[t].batches) = 1
                     /\ obs[t].batches[1].kind = "prefill"
                     /\ obs[t].batches[1].rc # 0
        /\ (obs[t].tokenized /\ obs[t].n_tokens < 0) => pc[t] = "thrown"
        /\ (PrefillDecodes(t) # <<>> /\ PrefillDecodes(t)[1].rc # 0) => pc[t] = "thrown"
        /\ obs[t].sampled # <<>> => pc[t] # "thrown"
        /\ (StepDecodes(t) # <<>> /\ StepDecodes(t)[Len(StepDecodes(t))].rc # 0) =>
               (obs[t].stop = "DecodeFailure" /\ pc[t] \in {"ret", "returned"})
        /\ (obs[t].stop \in {"InvalidToken", "DecodeFailure"} /\ pc[t] = "returned") =>
               (outcome[t].kind = "text" /\ outcome[t].text = response[t])

C7_Witness ==
    \E t \in Threads :
        /\ pc[t] = "returned"
        /\ obs[t].stop = "InvalidToken"
        /\ outcome[t].kind = "text"
        /\ outcome[t].text = <<"b">>

\* C17: concurrent calls of generate are served one at a time and each is
\* served in the end: the lock is held exactly during a session and released
\* on every way out of generate, by return and by throw; every session ends;
\* with fair lock acquisition every thread that waits for the lock gets it and
\* then returns a text or throws; no step of another thread changes or ends a
\* session that has started.
C17_EveryRequestServed ==
    /\ [](\A t \in Threads : pc[t] \in InSession <=> inference_mutex = t)
    /\ [][\A t \in Threads :
             (pc[t] \in InSession /\ pc'[t] \notin InSession) =>
                 /\ pc[t] \in {"returned", "thrown"}
                 /\ inference_mutex' = NoThread]_vars
    /\ [][\A t, u \in Threads :
             (t # u /\ pc[t] \in InSession /\ pc'[u] # pc[u]) =>
                 /\ pc'[t] = pc[t]
                 /\ inference_mutex' = inference_mutex
                 /\ ctx_memory' = ctx_memory
                 /\ sampler_state' = sampler_state
                 /\ tokens'[t] = tokens[t]
                 /\ response'[t] = response[t]
                 /\ n_generated'[t] = n_generated[t]
                 /\ outcome'[t] = outcome[t]]_vars
    /\ \A t \in Threads : (pc[t] \in InSession) ~> (pc[t] = "idle")
    /\ \A t \in Threads : (pc[t] = "wait") ~> (pc[t] \in {"returned", "thrown"})

\* a session has ended by a throw and still holds the lock while another
\* thread waits for it
C17_Witness ==
    \E t, u \in Threads :
        /\ t # u
        /\ pc[t] = "thrown"
        /\ inference_mutex = t
        /\ pc[u] = "wait"

\* the phase of a session: 0 Idle, 1 Tokenizing, 2 the capacity check,
\* 3 Prefilling, 4 Decoding, 5 Completed, 6 a terminal failure
Phase(at) ==
    CASE at \in {"idle", "wait", "clear"} -> 0
      [] at = "tokenize" -> 1
      [] at = "check" -> 2
      [] at = "prefill" -> 3
      [] at \in {"accept", "loop", "examine", "decode"} -> 4
      [] at \in {"ret", "returned"} -> 5
      [] at = "thrown" -> 6

\* C18: a session moves only forward through Idle, Tokenizing, Prefilling,
\* Decoding, Completed: the capacity check comes only after a successful
\* tokenization, the prefill only after the capacity check passed, the first
\* sample only after a successful prefill; a failed tokenization, a context
\* overflow and a failed prefill are terminal: the session samples no token
\* and returns no text, and ends.
C18_ForwardOnly ==
    /\ [](\A t \in Threads :
            /\ Phase(pc[t]) \in 2..5 => (obs[t].tokenized /\ obs[t].n_tokens >= 0)
            /\ Phase(pc[t]) \in 3..5 => obs[t].n_tokens < NCtx
            /\ (Phase(pc[t]) \in 4..5 \/ obs[t].sampled # <<>>) =>
                   /\ Len(PrefillDecodes(t)) = 1
                   /\ obs[t].batches[1].kind = "prefill"
                   /\ obs[t].batches[1].rc = 0
            /\ Phase(pc[t]) = 6 =>
                   /\ obs[t].sampled = <<>>
                   /\ outcome[t].kind = "error"
                   /\ outcome[t].what \in {"TokenizeFailed", "ContextOverflow",
                                           "DecodeFailed"}
            /\ outcome[t].kind = "text" => Phase(pc[t]) = 5)
    /\ [][\A t \in Threads :
            /\ (pc[t] \in InSession /\ pc'[t] \in InSession) =>
                   Phase(pc'[t]) >= Phase(pc[t])
            /\ (pc'[t] # pc[t] /\ Phase(pc'[t]) \in 1..5) =>
                   Phase(pc'[t]) \in {Phase(pc[t]), Phase(pc[t]) + 1}
            /\ (pc[t] = "thrown" /\ pc'[t] # pc[t]) => pc'[t] = "idle"
            /\ (Phase(pc'[t]) = 6 /\ pc[t] # pc'[t]) => Phase(pc[t]) \in 1..3]_vars

\* a prefill has failed: the session is at its terminal failure with one
\* batch submitted and no token sampled
C18_Witness ==
    \E t \in Threads :
        /\ pc[t] = "thrown"
        /\ outcome[t].what = "DecodeFailed"
        /\ Len(obs[t].batches) = 1
        /\ obs[t].batches[1].rc # 0
        /\ obs[t].n_tokens \in 1..(NCtx - 1)

\* the bound of the loop: max_tokens, and 0 when max_tokens is negative
LoopBound(t) == IF max_tokens[t] > 0 THEN max_tokens[t] ELSE 0

\* the steps the loop can still take: three for every turn left, and those
\* left in the turn under way
LoopRank(at, n, max) ==
    3 * ((IF max > 0 THEN max ELSE 0) - n)
    + (CASE at = "accept" -> 4
         [] at = "loop" -> 3
         [] at = "examine" -> 2
         [] at = "decode" -> 1
         [] OTHER -> 0)

\* C19: the decode loop always ends and max_tokens is its only bound:
\* whatever the sampler draws and the engine answers, the loop makes at most
\* max_tokens turns, samples at most max_tokens tokens and submits at most
\* max_tokens single-token decodes; with max_tokens <= 0 no token is sampled
\* and the returned text is empty.  The loop ends because every step in it
\* lowers a number that is never negative.
C19_LoopBoundedByMaxTokens ==
    /\ [](\A t \in Threads :
            pc[t] \in InSession =>
                /\ Len(obs[t].sampled) <= LoopBound(t)
                /\ Len(StepDecodes(t)) <= LoopBound(t)
                /\ n_generated[t] <= LoopBound(t)
                /\ Len(StepDecodes(t)) <= Len(obs[t].sampled)
                /\ Len(obs[t].sampled) <= n_generated[t] + 1
                /\ LoopRank(pc[t], n_generated[t], max_tokens[t]) >= 0
                /\ (max_tokens[t] <= 0 /\ pc[t] = "returned") =>
                       /\ obs[t].sampled = <<>>
                       /\ outcome[t] = [kind |-> "text", text |-> <<>>, what |-> "none"])
    /\ [][\A t \in Threads :
            (pc[t] \in {"accept", "loop", "examine", "decode"} /\ pc'[t] # pc[t]) =>
                /\ pc'[t] \in {"loop", "examine", "decode", "ret"}
                /\ max_tokens'[t] = max_tokens[t]
                /\ LoopRank(pc'[t], n_generated'[t], max_tokens'[t])
                       < LoopRank(pc[t], n_generated[t], max_tokens[t])]_vars

\* the loop has made max_tokens turns, every decode succeeding, and has ended
C19_Witness ==
    \E t \in Threads :
        /\ pc[t] = "returned"
        /\ max_tokens[t] = MaxTok
        /\ Len(obs[t].sampled) = MaxTok
        /\ Len(StepDecodes(t)) = MaxTok
        /\ obs[t].stop = "MaxTokensReached"

\* C20: the prefill submits all n prompt tokens in one batch in one decode
\* call: token i at position i for i = 0..n-1, each in sequence 0, with the
\* output-logits flag set for position n-1 and for no other position.
C20_PrefillOneBatch ==
    \A t \in Threads :
        /\ Len(PrefillDecodes(t)) <= 1
        /\ Phase(pc[t]) \in 4..5 => Len(PrefillDecodes(t)) = 1
        /\ PrefillDecodes(t) # <<>> =>
               LET batch == PrefillDecodes(t)[1].batch
                   n == Len(tokens[t])
               IN  /\ obs[t].batches[1].kind = "prefill"
                   /\ Len(batch) = n
                   /\ n = obs[t].n_tokens
                   /\ \A i \in 0..(n - 1) :
                          /\ batch[i + 1].token = tokens[t][i + 1]
                          /\ batch[i + 1].pos = i
                          /\ batch[i + 1].seq_id = 0
                          /\ batch[i + 1].logits = (i = n - 1)

\* a prompt of at least two tokens has been prefilled successfully
C20_Witness ==
    \E t \in Threads :
        /\ pc[t] = "accept"
        /\ Len(tokens[t]) >= 2
        /\ Len(PrefillDecodes(t)) = 1
        /\ PrefillDecodes(t)[1].rc = 0
        /\ ~PrefillDecodes(t)[1].batch[1].logits
        /\ PrefillDecodes(t)[1].batch[Len(tokens[t])].logits

\* the positions of a batch, in order
BatchPositions(batch) == [i \in 1..Len(batch) |-> batch[i].pos]

\* the positions of all the batches a session has submitted, in order
RECURSIVE AllPositions(_)
AllPositions(batches) ==
    IF batches = <<>> THEN <<>>
    ELSE BatchPositions(Head(batches).batch) \o AllPositions(Tail(batches))

\* C21: in the decode loop the position counter is prompt_length plus the
\* number of tokens emitted so far: the k-th single-token decode, k from 0, is
\* submitted at position prompt_length + k in sequence 0 with logits asked
\* for, so the positions of a session are 0, 1, 2, ... without gap or
\* repetition, and the counter grows by exactly one with every successful
\* decode step.
C21_PositionsConsecutive ==
    \A t \in Threads :
        /\ (Phase(pc[t]) = 4 /\ pc[t] # "accept") =>
               /\ cur_pos[t] = Len(tokens[t]) + n_generated[t]
               /\ n_generated[t] =
                      Len(SelectSeq(StepDecodes(t), LAMBDA b : b.rc = 0))
        /\ pc[t] = "loop" => cur_pos[t] = Len(tokens[t]) + Len(obs[t].pieces)
        /\ \A k \in 0..(Len(StepDecodes(t)) - 1) :
               /\ Len(StepDecodes(t)[k + 1].batch) = 1
               /\ StepDecodes(t)[k + 1].batch[1].pos = Len(tokens[t]) + k
               /\ StepDecodes(t)[k + 1].batch[1].seq_id = 0
               /\ StepDecodes(t)[k + 1].batch[1].logits
               /\ StepDecodes(t)[k + 1].batch[1].token = obs[t].pieces[k + 1]
        /\ AllPositions(obs[t].batches)
               = [i \in 1..Len(AllPositions(obs[t].batches)) |-> i - 1]

\* two single-token decodes have succeeded behind a prompt of two tokens
C21_Witness ==
    \E t \in Threads :
        /\ pc[t] = "loop"
        /\ Len(tokens[t]) = 2
        /\ n_generated[t] = 2
        /\ cur_pos[t] = 4
        /\ AllPositions(obs[t].batches) = <<0, 1, 2, 3>>

\* a token whose conversion to text gives no bytes (n = 0) or fails (n < 0)
SilentToken(tok) == tok >= 0 /\ llama_token_to_piece(tok).n <= 0

\* the single-token decodes of thread t that carried a silent token
SilentDecodes(t) ==
    SelectSeq(StepDecodes(t), LAMBDA b : SilentToken(b.batch[1].token))

\* C22: a sampled token whose conversion to text yields zero or negative
\* length leaves the accumulated text as it was, and is otherwise treated as
\* every emitted token: the sampler accepts it, it is decoded alone at the
\* next position, a successful decode counts it toward max_tokens and the
\* loop goes on; nothing is thrown and no stop reason is set for it.
C22_SilentTokenStillProcessed ==
    \A t \in Threads :
        LET p == obs[t].pieces
            voiced == SelectSeq(p, LAMBDA tok : ~SilentToken(tok))
        IN
        /\ (pc[t] = "decode" /\ SilentToken(new_token[t])) =>
               /\ p # <<>> /\ p[Len(p)] = new_token[t]
               /\ response[t] = PiecesText(SubSeq(p, 1, Len(p) - 1))
               /\ sampler_state # <<>>
               /\ sampler_state[Len(sampler_state)] = new_token[t]
               /\ obs[t].accepted = tokens[t] \o p
               /\ obs[t].stop = "none"
               /\ outcome[t].kind = "none"
        /\ pc[t] \in {"loop", "examine", "decode", "ret", "returned"} =>
               Len(response[t]) = Len(voiced)
        /\ \A k \in 1..Len(StepDecodes(t)) :
               LET b == StepDecodes(t)[k] IN
               SilentToken(b.batch[1].token) =>
                   /\ b.batch[1].pos = Len(tokens[t]) + k - 1
                   /\ b.hist # <<>> /\ b.hist[Len(b.hist)] = b.batch[1].token
        /\ (pc[t] = "loop" /\ p # <<>> /\ SilentToken(p[Len(p)])) =>
               /\ n_generated[t] = Len(p)
               /\ cur_pos[t] = Len(tokens[t]) + Len(p)
               /\ obs[t].stop = "none"
        /\ pc[t] = "thrown" => p = <<>>

C22_Witness ==
    \E t \in Threads :
        /\ pc[t] = "loop"
        /\ obs[t].pieces = <<3, 4>>
        /\ n_generated[t] = 2
        /\ response[t] = <<>>
        /\ Len(SilentDecodes(t)) = 2

\* C23: a negative sampled token id stops the loop with InvalidToken before
\* the token is used: it is not converted to text, not accepted by the
\* sampler chain and not submitted to a decode, and the text accumulated
\* before it is what the call returns.
C23_InvalidTokenNeverUsed ==
    \A t \in Threads :
        LET s == obs[t].sampled IN
        /\ \A i \in 1..Len(obs[t].pieces) : obs[t].pieces[i] >= 0
        /\ \A i \in 1..Len(obs[t].accepted) : obs[t].accepted[i] >= 0
        /\ \A i \in 1..Len(sampler_state) : sampler_state[i] >= 0
        /\ \A k \in 1..Len(obs[t].batches) :
               \A i \in 1..Len(obs[t].batches[k].batch) :
                   obs[t].batches[k].batch[i].token >= 0
        /\ \A i \in 1..Len(s) : s[i] < 0 => i = Len(s)
        /\ (s # <<>> /\ s[Len(s)] < 0 /\ pc[t] # "examine") =>
               /\ obs[t].stop = "InvalidToken"
               /\ pc[t] \in {"ret", "returned"}
               /\ obs[t].pieces = SubSeq(s, 1, Len(s) - 1)
               /\ obs[t].accepted = tokens[t] \o SubSeq(s, 1, Len(s) - 1)
               /\ Len(StepDecodes(t)) = Len(s) - 1
               /\ response[t] = PiecesText(SubSeq(s, 1, Len(s) - 1))
               /\ pc[t] = "returned" =>
                      /\ outcome[t].kind = "text"
                      /\ outcome[t].text = PiecesText(SubSeq(s, 1, Len(s) - 1))
        /\ obs[t].stop = "InvalidToken" => (s # <<>> /\ s[Len(s)] < 0)

C23_Witness ==
    \E t \in Threads :
        /\ pc[t] = "returned"
        /\ obs[t].sampled = <<0, InvalidToken>>
        /\ obs[t].stop = "InvalidToken"
        /\ outcome[t].text = <<"a">>

\* C24: in a session whose prefill succeeds every prompt token is passed to
\* the sampler's accept, in prompt order, after the prefill decode and before
\* the first sample; in a session whose tokenization, capacity check or
\* prefill fails accept is not called; in the loop each emitted token is
\* accepted before its single-token decode is submitted.
C24_AcceptOrder ==
    \A t \in Threads :
        /\ pc[t] \in {"tokenize", "check", "prefill", "accept", "thrown"} =>
               /\ obs[t].accepted = <<>>
               /\ obs[t].sampled = <<>>
               /\ inference_mutex = t => sampler_state = <<>>
        /\ \A k \in 1..Len(PrefillDecodes(t)) : PrefillDecodes(t)[k].hist = <<>>
        /\ pc[t] \in {"loop", "examine", "decode", "ret", "returned"} =>
               /\ Len(PrefillDecodes(t)) = 1
               /\ PrefillDecodes(t)[1].rc = 0
               /\ obs[t].batches[1].kind = "prefill"
               /\ obs[t].accepted = tokens[t] \o obs[t].pieces
               /\ inference_mutex = t => sampler_state = obs[t].accepted
        /\ obs[t].sampled # <<>> =>
               SubSeq(obs[t].accepted, 1, Len(tokens[t])) = tokens[t]
        /\ \A k \in 1..Len(StepDecodes(t)) :
               StepDecodes(t)[k].hist = tokens[t] \o SubSeq(obs[t].pieces, 1, k)

C24_Witness ==
    \E t \in Threads :
        /\ pc[t] = "loop"
        /\ tokens[t] = <<0, 1>>
        /\ obs[t].sampled = <<1>>
        /\ sampler_state = <<0, 1, 1>>
        /\ StepDecodes(t)[1].hist = <<0, 1, 1>>

\* the pipeline the sampling policy names: top-k 40, top-p 0.9, temperature
\* 0.7, then the categorical draw
FixedPipeline ==
    <<[stage |-> "top_k", arg |-> "40"],
      [stage |-> "top_p", arg |-> "0.9f"],
      [stage |-> "temp", arg |-> "0.7f"],
      [stage |-> "dist", arg |-> "LLAMA_DEFAULT_SEED"]>>

\* C25: the sampler chain is the fixed ordered pipeline top-k with k = 40,
\* top-p with p = 0.9, temperature 0.7, categorical draw; it is built at load
\* time and no generate call adds, removes or reorders a stage, so every
\* sample of every session goes through the stages in this order.
C25_SamplerChainFixed ==
    /\ sampler_chain = FixedPipeline
    /\ \A t \in Threads :
           /\ Len(obs[t].via) = Len(obs[t].sampled)
           /\ \A i \in 1..Len(obs[t].via) : obs[t].via[i] = FixedPipeline

C25_Witness ==
    \E t \in Threads :
        /\ pc[t] = "returned"
        /\ obs[t].stop = "MaxTokensReached"
        /\ obs[t].sampled = <<0, 3>>
        /\ obs[t].via = <<FixedPipeline, FixedPipeline>>
        /\ sampler_chain = FixedPipeline

\* C33: no single-token decode is submitted at a position greater than or
\* equal to the context capacity: for every prompt that passes the capacity
\* check and every max_tokens, each position the decode loop uses is strictly
\* less than n_ctx.
C33_DecodeWithinCapacity ==
    \A t \in Threads :
        \A k \in 1..Len(StepDecodes(t)) :
            \A i \in 1..Len(StepDecodes(t)[k].batch) :
                StepDecodes(t)[k].batch[i].pos < NCtx

\* the single-token decodes of thread t that returned 0
SucceededSteps(t) == SelectSeq(StepDecodes(t), LAMBDA b : b.rc = 0)

\* C34: when the decode loop has ended, the emitted-token count equals the
\* number of single-token decodes that succeeded; on every stop but
\* DecodeFailure it also equals the number of generated tokens the sampler
\* accepted and the number of tokens whose text was considered, whereas on
\* DecodeFailure the token whose decode failed has had its text appended and
\* has been accepted, and is not counted.
C34_CountEqualsSucceededDecodes ==
    \A t \in Threads :
        pc[t] \in {"ret", "returned"} =>
            LET generated == Len(obs[t].accepted) - Len(tokens[t])
                considered == Len(obs[t].pieces)
                steps == StepDecodes(t)
            IN  /\ n_generated[t] = Len(SucceededSteps(t))
                /\ obs[t].stop # "DecodeFailure" =>
                       /\ generated = n_generated[t]
                       /\ considered = n_generated[t]
                       /\ Len(steps) = n_generated[t]
                /\ obs[t].stop = "DecodeFailure" =>
                       /\ generated = n_generated[t] + 1
                       /\ considered = n_generated[t] + 1
                       /\ Len(steps) = n_generated[t] + 1
                       /\ steps[Len(steps)].rc # 0
                       /\ steps[Len(steps)].batch[1].token = obs[t].pieces[considered]
                       /\ obs[t].accepted[Len(obs[t].accepted)] = obs[t].pieces[considered]
                       /\ response[t] = PiecesText(obs[t].pieces)

\* two tokens emitted, the decode of the second failed: one is counted, the
\* text of both is returned
C34_Witness ==
    \E t \in Threads :
        /\ pc[t] = "returned"
        /\ obs[t].stop = "DecodeFailure"
        /\ obs[t].pieces = <<0, 1>>
        /\ n_generated[t] = 1
        /\ Len(SucceededSteps(t)) = 1
        /\ outcome[t].text = <<"a", "b">>

(***************************************************************************)
(* Properties of the extractors.                                           *)
(***************************************************************************)
\* C8: extraction never raises: each of the three extractors returns a
\* record for every text and lets no exception reach its caller, also when
\* the payload parses but a field has an unexpected type.
C8_ExtractionNeverRaises ==
    /\ metadata.kind # "raised"
    /\ reply_data.kind # "raised"
    /\ classification_data.kind # "raised"

\* has every field of a shape
HasFields(rec, keys) == rec.type = "object" /\ keys \subseteq DOMAIN rec.members

CvFields == DOMAIN CvFallback.members
DraftFields == DOMAIN DraftFallback.members

\* C9: the record returned by CV-metadata and draft-reply extraction is
\* never empty: a parsed payload that lacks the fields of the shape is
\* replaced by the shape's fallback record, so every returned record, and the
\* draft-reply response built from it, has the fields of its shape.
C9_RecordNeverEmpty ==
    /\ metadata.kind = "record" =>
           (HasFields(metadata.rec, CvFields) \/ metadata.rec = CvFallback)
    /\ reply_data.kind = "record" =>
           (HasFields(reply_data.rec, DraftFields) \/ reply_data.rec = DraftFallback)
    /\ (reply_data.kind = "record" /\ draft_response.status = 200) =>
           (draft_response.subject # JNull /\ draft_response.draft_reply # JNull)

\* what json::parse makes of the payload of the text, when it has one
ParsedPayload(text) ==
    IF ValidSpan(StartMarker(text), EndMarker(text))
    THEN json_parse(CleanedSlice(text, StartMarker(text), EndMarker(text)))
    ELSE ParseFail("no_span")

\* the category the claim expects for a parsed object: the parsed one when it
\* is one of the four names, the neutral default for anything else
ExpectedCategory(parsed) ==
    IF /\ Key("category") \in DOMAIN parsed.members
       /\ parsed.members[Key("category")].type = "string"
       /\ parsed.members[Key("category")].str \in valid_categories
    THEN parsed.members[Key("category")].str
    ELSE DefaultCategory

\* C10: after a successful parse, classification returns the parsed category
\* when it is one of the four names and "FYI / Low Priority" for any other
\* parsed category value or a missing one; an out-of-set category is never an
\* error.
C10_CategoryValidated ==
    (classification_data # Pending /\ ParsedPayload(model_output).status = "ok") =>
        /\ classification_data.kind = "record"
        /\ classification_data.rec.members[Key("category")] =
               JStr(ExpectedCategory(ParsedPayload(model_output).val))

\* the confidence the claim expects for a parsed object, in tenths: the parsed
\* number clamped, the default 0.5 when the object has no confidence
ExpectedConfidence(parsed) ==
    IF Key("confidence") \in DOMAIN parsed.members
    THEN IF parsed.members[Key("confidence")].num < 0 THEN 0
         ELSE IF parsed.members[Key("confidence")].num > 10 THEN 10
         ELSE parsed.members[Key("confidence")].num
    ELSE DefaultConfidence

\* a fenced payload with category "Spam" and confidence 1.7, then trailing text
SpamExample ==
    <<FENCE, LF>>
    \o Object2(Member("category", Str("Spam")), Member("confidence", <<"1.7">>))
    \o <<LF, TICKS, LF, "trailing">>

\* C11: after a successful parse the confidence that classification returns is
\* the parsed confidence clamped into [0.0, 1.0] and the validated category is
\* kept, the fallback record never taking the place of a record whose
\* confidence was out of range; the fenced Spam / 1.7 payload followed by
\* trailing text gives category "Spam" and confidence 1.0.
C11_ConfidenceClamped ==
    /\ (/\ classification_data.kind = "record"
        /\ ParsedPayload(model_output).status = "ok") =>
           classification_data.rec =
               JObj(Members2("category",
                             JStr(ExpectedCategory(ParsedPayload(model_output).val)),
                             "confidence",
                             JNum(ExpectedConfidence(ParsedPayload(model_output).val))))
    /\ (classification_data # Pending /\ model_output = SpamExample) =>
           classification_data =
               Returned(JObj(Members2("category", JStr(Text("Spam")),
                                      "confidence", JNum(10))))

\* the Spam / 1.7 example has been classified
C11_Witness ==
    /\ model_output = SpamExample
    /\ classification_data.kind = "record"
    /\ classification_data.rec.members[Key("confidence")] = JNum(10)
    /\ classification_data.rec # ClassificationFallback

\* the 0-based indices at which the symbol c stands in the text
Positions(text, c) == {i \in 0..(Len(text) - 1) : text[i + 1] = c}

SetMin(S) == CHOOSE x \in S : \A y \in S : x <= y
SetMax(S) == CHOOSE x \in S : \A y \in S : x >= y

\* where the payload starts, said without the scan: behind the first fence
\* opener and the newlines, carriage returns and spaces that follow it, or at
\* the first opening brace when the text has no fence opener
LocatedStart(text) ==
    IF Positions(text, FENCE) # {}
    THEN SetMin({j \in (SetMin(Positions(text, FENCE)) + 1)..Len(text) :
                    j = Len(text) \/ text[j + 1] \notin {LF, CR, SP}})
    ELSE IF Positions(text, LB) # {} THEN SetMin(Positions(text, LB))
    ELSE npos

\* no start located, no closing brace, or the last closing brace not strictly
\* after the start
NoPayloadSpan(text) ==
    \/ LocatedStart(text) = npos
    \/ Positions(text, RB) = {}
    \/ SetMax(Positions(text, RB)) <= LocatedStart(text)

\* the fixed CV record, field by field
UnknownCv ==
    JObj([k \in {<<"name">>, <<"position">>, <<"skills">>, <<"experience">>,
                 <<"education">>} |->
            IF k = <<"skills">> THEN JArr(<<>>) ELSE JStr(<<"Unknown">>)])

\* C12: for every text without a valid payload span (no start located, no
\* closing brace, or the last closing brace not strictly after the start)
\* CV-metadata extraction returns exactly the record name "Unknown", position
\* "Unknown", skills [], experience "Unknown", education "Unknown"; every text
\* without any brace is such a text.
C12_NoSpanGivesCvFallback ==
    /\ (metadata # Pending /\ NoPayloadSpan(model_output)) =>
           metadata = Returned(UnknownCv)
    /\ (Positions(model_output, LB) \cup Positions(model_output, RB) = {}) =>
           NoPayloadSpan(model_output)

\* a text with a complete object in front of a fence opener, so that the last
\* closing brace lies before the start, has been given to the extractor
C12_Witness ==
    /\ metadata = Returned(UnknownCv)
    /\ Positions(model_output, FENCE) # {}
    /\ Positions(model_output, RB) # {}
    /\ Positions(model_output, LB) # {}
    /\ SetMax(Positions(model_output, RB)) < LocatedStart(model_output)
    /\ json_parse(Substr(model_output, SetMin(Positions(model_output, LB)),
                         SetMax(Positions(model_output, RB))
                             - SetMin(Positions(model_output, LB)) + 1)).status = "ok"

\* C13: the fallback is a fixed point of extraction: for each of the three
\* shapes, the fallback record serialized to JSON text and given to the same
\* extractor comes back as the same fallback record, however often this is
\* repeated.
C13_FallbackIdempotent ==
    [][/\ (ResubmitCv /\ metadata = Returned(CvFallback)) =>
              metadata' = Returned(CvFallback)
       /\ (ResubmitDraft /\ reply_data = Returned(DraftFallback)) =>
              reply_data' = Returned(DraftFallback)
       /\ (ResubmitClassification
             /\ classification_data = Returned(ClassificationFallback)) =>
              classification_data' = Returned(ClassificationFallback)]_vars

\* the classification fallback has been serialized and extracted again
C13_Witness ==
    /\ model_output = dump(ClassificationFallback)
    /\ classification_data = Returned(ClassificationFallback)
    /\ ParsedPayload(model_output).status = "ok"

\* the slice of lines 197-203, before the non-breaking spaces are replaced
RawSlice(text) ==
    StripTail(Substr(text, StartMarker(text),
                     EndMarker(text) - StartMarker(text) + 1))

\* every 0xC2 0xA0 of the text replaced by one space in a single pass from
\* left to right, every other symbol kept
RECURSIVE NbspToSpace(_)
NbspToSpace(str) ==
    IF str = <<>> THEN <<>>
    ELSE IF Len(str) >= 2 /\ str[1] = xC2 /\ str[2] = xA0
    THEN <<SP>> \o NbspToSpace(SubSeq(str, 3, Len(str)))
    ELSE <<Head(str)>> \o NbspToSpace(Tail(str))

\* the number of places at which 0xC2 0xA0 stands
NbspCount(str) ==
    Cardinality({i \in 1..(Len(str) - 1) : str[i] = xC2 /\ str[i + 1] = xA0})

\* a payload that is valid as it stands, with 0xC2 0xA0 inside a string value
NbspInsideValue(text) ==
    /\ ValidSpan(StartMarker(text), EndMarker(text))
    /\ NbspCount(RawSlice(text)) > 0
    /\ json_parse(RawSlice(text)).status = "ok"

\* C14: in the candidate slice every 0xC2 0xA0 becomes one ordinary space and
\* every other byte is kept in order; the loop ends and leaves no 0xC2 0xA0 in
\* the slice; an otherwise valid payload with the sequence inside a string
\* value is parsed, with a plain space in that value, and is not replaced by
\* the fallback.
C14_NbspNormalized ==
    /\ ValidSpan(StartMarker(model_output), EndMarker(model_output)) =>
          LET raw == RawSlice(model_output)
              cleaned == CleanedSlice(model_output, StartMarker(model_output),
                                      EndMarker(model_output))
          IN  /\ cleaned = NbspToSpace(raw)
              /\ Len(cleaned) = Len(raw) - NbspCount(raw)
              /\ NbspCount(cleaned) = 0
    /\ (metadata # Pending /\ NbspInsideValue(model_output)) =>
          /\ json_parse(NbspToSpace(RawSlice(model_output))).status = "ok"
          /\ metadata = Returned(json_parse(NbspToSpace(RawSlice(model_output))).val)
    /\ (metadata # Pending
          /\ model_output = Object1(Member("name", <<QT, "Ada", xC2, xA0, "Lovelace", QT>>))) =>
          metadata = Returned(JObj([k \in {<<"name">>} |-> JStr(<<"Ada Lovelace">>)]))
    /\ (classification_data # Pending /\ NbspInsideValue(model_output)
          /\ json_parse(NbspToSpace(RawSlice(model_output))).val.members
                = [k \in {<<"category">>} |-> JStr(<<"Normal Follow-up">>)]) =>
          classification_data =
              Returned(JObj(Members2("category", JStr(<<"Normal Follow-up">>),
                                     "confidence", JNum(DefaultConfidence))))

\* a name with two non-breaking spaces in it has been extracted
C14_Witness ==
    /\ NbspInsideValue(model_output)
    /\ NbspCount(RawSlice(model_output)) = 2
    /\ metadata.kind = "record"
    /\ metadata.rec # CvFallback
    /\ metadata.rec.type = "object"

\* what an extractor returns when its payload starts at the given index
CvFrom(text, start) ==
    IF ValidSpan(start, EndMarker(text))
    THEN ParsedOrFallback(CleanedSlice(text, start, EndMarker(text)), CvFallback)
    ELSE Returned(CvFallback)

DraftFrom(text, start) ==
    IF ValidSpan(start, EndMarker(text))
    THEN ParsedOrFallback(CleanedSlice(text, start, EndMarker(text)), DraftFallback)
    ELSE Returned(DraftFallback)

ClassificationFrom(text, start) ==
    IF ValidSpan(start, EndMarker(text))
    THEN ClassificationOf(CleanedSlice(text, start, EndMarker(text)))
    ELSE Returned(ClassificationFallback)

\* C26: in all three extractors, when the text has a fence opener the payload
\* starts at the first symbol behind the first opener that is not a newline,
\* a carriage return or a space, and the first opening brace plays no part,
\* also when a brace stands before the fence or the fence gives no valid
\* span; only a text without fence opener starts at its first opening brace.
C26_StartLocation ==
    LET text == model_output
        start == LocatedStart(text)
    IN  /\ StartMarker(text) = start
        /\ metadata # Pending => metadata = CvFrom(text, start)
        /\ reply_data # Pending => reply_data = DraftFrom(text, start)
        /\ classification_data # Pending =>
               classification_data = ClassificationFrom(text, start)
        /\ (Positions(text, FENCE) # {} /\ ~ValidSpan(start, EndMarker(text))) =>
               /\ metadata \in {Pending, Returned(CvFallback)}
               /\ reply_data \in {Pending, Returned(DraftFallback)}
               /\ classification_data \in {Pending, Returned(ClassificationFallback)}

\* an opening brace stands before the fence opener; the payload behind the
\* fence has been extracted, and the text from the first brace on would not
\* have parsed
C26_Witness ==
    /\ Positions(model_output, FENCE) # {}
    /\ Positions(model_output, LB) # {}
    /\ SetMin(Positions(model_output, LB)) < SetMin(Positions(model_output, FENCE))
    /\ LocatedStart(model_output) > SetMin(Positions(model_output, FENCE)) + 1
    /\ classification_data # Pending
    /\ classification_data.kind = "record"
    /\ classification_data # Returned(ClassificationFallback)
    /\ classification_data = ClassificationFrom(model_output, LocatedStart(model_output))
    /\ ClassificationFrom(model_output, SetMin(Positions(model_output, LB)))
           = Returned(ClassificationFallback)

\* the index of the last closing brace of the text
LastClosingBrace(text) ==
    IF Positions(text, RB) = {} THEN npos ELSE SetMax(Positions(text, RB))

\* the symbols of the text from index first to index last, both included
Through(text, first, last) == [i \in 1..(last - first + 1) |-> text[first + i]]

\* C27: the end of the payload is the last closing brace of the whole text; a
\* candidate is taken only when a start was located, a closing brace exists
\* and the end index is strictly greater than the start index, and it is then
\* exactly the symbols from start through end: what follows the last closing
\* brace is left out, what lies between, further braces too, is kept.
C27_EndAndSlice ==
    LET text == model_output
        start == StartMarker(text)
        end == LastClosingBrace(text)
        taken == start # npos /\ end # npos /\ end > start
        slice == Through(text, start, end)
    IN  /\ EndMarker(text) = end
        /\ ValidSpan(start, EndMarker(text)) <=> taken
        /\ taken =>
               /\ Substr(text, start, EndMarker(text) - start + 1) = slice
               /\ RawSlice(text) = slice
               /\ slice[Len(slice)] = RB
               /\ metadata # Pending =>
                      metadata = ParsedOrFallback(ReplaceNbsp(slice), CvFallback)
               /\ reply_data # Pending =>
                      reply_data = ParsedOrFallback(ReplaceNbsp(slice), DraftFallback)
               /\ classification_data # Pending =>
                      classification_data = ClassificationOf(ReplaceNbsp(slice))
        /\ ~taken =>
               /\ metadata \in {Pending, Returned(CvFallback)}
               /\ reply_data \in {Pending, Returned(DraftFallback)}
               /\ classification_data \in {Pending, Returned(ClassificationFallback)}

\* a complete object followed by a space and one more closing brace: the
\* slice runs to the last brace and does not parse, the object alone would
C27_Witness ==
    LET text == model_output
        start == StartMarker(text)
    IN  /\ Cardinality(Positions(text, RB)) = 2
        /\ ValidSpan(start, EndMarker(text))
        /\ EndMarker(text) = Len(text) - 1
        /\ json_parse(Through(text, start, SetMin(Positions(text, RB)))).status = "ok"
        /\ json_parse(Through(text, start, EndMarker(text))).status = "parse_error"
        /\ start < SetMin(Positions(text, RB))
        /\ metadata = Returned(CvFallback)
        /\ reply_data = Returned(DraftFallback)

\* C28: when strict parsing of the cleaned slice fails, each extractor
\* returns exactly its fixed fallback record (CV: every field "Unknown" and
\* no skills; draft reply: subject "Re: [Subject]" and the fixed message;
\* classification: "FYI / Low Priority" with confidence 0.5), so that no
\* value of the partially parsed text appears in what is returned.
C28_ParseFailureGivesFallback ==
    LET p == ParsedPayload(model_output)
    IN  (p.status \notin {"ok", "no_span"}) =>
            /\ metadata \in {Pending, Returned(CvFallback)}
            /\ reply_data \in {Pending, Returned(DraftFallback)}
            /\ classification_data \in {Pending, Returned(ClassificationFallback)}

\* the four category names, written out
FourCategories ==
    {<<"Urgent & Action Required">>, <<"Normal Follow-up">>,
     <<"FYI / Low Priority">>, <<"Spam">>}

\* C31: whenever classification extraction returns, after a parse and on the
\* fallback path alike, the record has exactly the two fields category and
\* confidence, the category is one of the four fixed names and the
\* confidence lies in [0.0, 1.0]; a parsed object without confidence gives
\* 0.5, and no other field of the parsed payload appears in the record.
C31_ClassificationShape ==
    classification_data.kind = "record" =>
        LET rec == classification_data.rec
            p == ParsedPayload(model_output)
        IN  /\ rec.type = "object"
            /\ DOMAIN rec.members = {<<"category">>, <<"confidence">>}
            /\ rec.members[<<"category">>].type = "string"
            /\ rec.members[<<"category">>].str \in FourCategories
            /\ rec.members[<<"confidence">>].type = "number"
            /\ rec.members[<<"confidence">>].num \in 0..10
            /\ (p.status = "ok" /\ <<"confidence">> \notin DOMAIN p.val.members) =>
                   rec.members[<<"confidence">>].num = 5
            /\ p.status # "ok" => classification_data = Returned(ClassificationFallback)

\* a parsed object with the field note and without confidence has been
\* classified: category and the confidence 0.5 alone are in the record
C31_Witness ==
    LET p == ParsedPayload(model_output)
    IN  /\ classification_data.kind = "record"
        /\ p.status = "ok"
        /\ DOMAIN p.val.members = {<<"category">>, <<"note">>}
        /\ DOMAIN classification_data.rec.members = {<<"category">>, <<"confidence">>}
        /\ classification_data.rec.members[<<"category">>].str = <<"Spam">>
        /\ classification_data.rec.members[<<"confidence">>].num = 5

(***************************************************************************)
(* Properties of the persona line.                                         *)
(***************************************************************************)
\* the lines of a text: the runs between line feeds; what follows the last
\* line feed is a line only when it is not empty
RECURSIVE LinesOf(_)
LinesOf(text) ==
    IF text = <<>> THEN <<>>
    ELSE IF Positions(text, LF) = {} THEN <<text>>
    ELSE <<SubSeq(text, 1, SetMin(Positions(text, LF)))>>
         \o LinesOf(SubSeq(text, SetMin(Positions(text, LF)) + 2, Len(text)))

\* a line without its leading and trailing whitespace and quote characters
Trimmed(line) ==
    LET kept == {i \in 1..Len(line) : line[i] \notin {SP, LF, CR, TAB, QT}}
    IN  IF kept = {} THEN <<>> ELSE SubSeq(line, SetMin(kept), SetMax(kept))

\* the line, trimmed, is not skipped, starts with the name and is longer than
\* 50 characters
Qualifies(line, subject) ==
    LET t == Trimmed(line)
    IN  /\ t # <<>>
        /\ t # <<TICKS>>
        /\ \A i \in 1..Len(t) : t[i] # PersonaMarker
        /\ Len(subject) <= Len(t)
        /\ \A i \in 1..Len(subject) : t[i] = subject[i]
        /\ Length(t) > 50

\* the numbers, from 1, of the lines that qualify
QualifyingLines(text, subject) ==
    LET lines == LinesOf(text)
    IN  {i \in 1..Len(lines) : Qualifies(lines[i], subject)}

\* C15: the first full match wins: when at least one line, trimmed of
\* whitespace and quotes and not skipped, starts with the subject's name and
\* is longer than 50 characters, the extracted line is the first such line,
\* trimmed, whatever lines with parentheses stand before or after it, and the
\* scan stops at that line.
C15_FirstFullMatchWins ==
    LET full == QualifyingLines(raw_output, input_json.name)
    IN  (persona_pc \in {"extracted", "done"} /\ full # {}) =>
            /\ best_line = Trimmed(LinesOf(raw_output)[SetMin(full)])
            /\ line_count = SetMin(full)
            /\ persona_pc = "done" => persona_string = best_line

\* a line with parentheses, then two lines that qualify, the second one with
\* parentheses: the scan has stopped at the second line of three
C15_Witness ==
    /\ persona_pc = "done"
    /\ Len(LinesOf(raw_output)) = 3
    /\ QualifyingLines(raw_output, input_json.name) = {2, 3}
    /\ PersonaShaped(Trimmed(LinesOf(raw_output)[1]))
    /\ PersonaShaped(Trimmed(LinesOf(raw_output)[3]))
    /\ ~PersonaShaped(Trimmed(LinesOf(raw_output)[2]))
    /\ persona_string = Trimmed(LinesOf(raw_output)[2])
    /\ line_count = 2

\* the line, trimmed, is not skipped, is longer than 50 characters and holds
\* both parentheses
Shaped(line) ==
    LET t == Trimmed(line)
    IN  /\ t # <<>>
        /\ t # <<TICKS>>
        /\ \A i \in 1..Len(t) : t[i] # PersonaMarker
        /\ Length(t) > 50
        /\ \E i, j \in 1..Len(t) : t[i] = "(" /\ t[j] = ")"

\* no line of the text is a full match or a persona-shaped line
NoLineQualifies(text, subject) ==
    LET lines == LinesOf(text)
    IN  \A i \in 1..Len(lines) :
            ~Qualifies(lines[i], subject) /\ ~Shaped(lines[i])

\* the fallback sentence, from the four fields of the request
FallbackSentence(req) ==
    Bytes(req.name) \o " (" \o Bytes(req.position) \o ", " \o Bytes(req.department)
    \o "). Preferred language: " \o Bytes(req.language)
    \o ". Professional tone inferred from writing samples. Direct communication style."

\* C16: when no line of the text qualifies (the empty text included) or the
\* selected line is shorter than 20 characters, the final persona string is
\* the fallback built from the request's name, position, department and
\* language alone; the final string is never empty.
C16_PersonaFallback ==
    persona_pc = "done" =>
        /\ (\/ NoLineQualifies(raw_output, input_json.name)
            \/ Length(best_line) < 20) =>
               Bytes(persona_string) = FallbackSentence(input_json)
        /\ persona_string # <<>>
        /\ Length(persona_string) > 0

\* a text of three lines, one of them with the name and exactly 50
\* characters, none qualifying: the request's fallback is the final string
C16_Witness ==
    /\ persona_pc = "done"
    /\ Len(LinesOf(raw_output)) = 3
    /\ line_count = 3
    /\ \E i \in 1..3 : Length(Trimmed(LinesOf(raw_output)[i])) = 50
    /\ NoLineQualifies(raw_output, input_json.name)
    /\ best_line = <<>>
    /\ Length(persona_string) >= 20
    /\ Bytes(persona_string) = FallbackSentence(input_json)

\* the numbers, from 1, of the lines the scan does not skip that are longer
\* than 50 characters and hold both parentheses
ShapedLines(text) ==
    LET lines == LinesOf(text)
    IN  {i \in 1..Len(lines) : Shaped(lines[i])}

\* C29: the last candidate wins otherwise: when no line that is not skipped
\* starts with the subject's name and is longer than 50 characters, the
\* extracted line is the last line in text order, among those the scan does
\* not skip, whose trimmed form is longer than 50 characters and holds both
\* an opening and a closing parenthesis; a later such line replaces an
\* earlier one, and the result is the empty string when there is none.
C29_LastCandidateWins ==
    LET lines == LinesOf(raw_output)
        shaped == ShapedLines(raw_output)
        seen == {i \in shaped : i <= line_count}
    IN  QualifyingLines(raw_output, input_json.name) = {} =>
            /\ persona_pc \in {"scan", "extracted", "done"} =>
                   best_line = IF seen = {} THEN <<>>
                               ELSE Trimmed(lines[SetMax(seen)])
            /\ persona_pc \in {"extracted", "done"} =>
                   /\ line_count = Len(lines)
                   /\ seen = shaped
                   /\ shaped = {} => best_line = <<>>

\* three lines, the first and the third persona-shaped and different, no
\* full match: the third has been extracted
C29_Witness ==
    /\ persona_pc = "extracted"
    /\ QualifyingLines(raw_output, input_json.name) = {}
    /\ ShapedLines(raw_output) = {1, 3}
    /\ Trimmed(LinesOf(raw_output)[1]) # Trimmed(LinesOf(raw_output)[3])
    /\ best_line = Trimmed(LinesOf(raw_output)[3])
    /\ line_count = 3

\* the line, trimmed, is one the skip rule names: empty, a bare fence marker,
\* or holding "Persona:" somewhere
NamedBySkipRule(line) ==
    LET t == Trimmed(line)
    IN  \/ t = <<>>
        \/ t = <<TICKS>>
        \/ \E i \in 1..Len(t) : t[i] = PersonaMarker

\* the line starts with the name, is longer than 50 characters and holds
\* both parentheses
Tempting(line, subject) ==
    LET t == Trimmed(line)
    IN  /\ Len(subject) <= Len(t)
        /\ SubSeq(t, 1, Len(subject)) = subject
        /\ Length(t) > 50
        /\ \E i, j \in 1..Len(t) : t[i] = "(" /\ t[j] = ")"

\* C30: persona extraction never selects a skipped line: a line that after
\* trimming is empty, is exactly a bare fence marker or holds "Persona:"
\* anywhere is neither returned nor remembered as the candidate, also when it
\* starts with the subject's name, is longer than 50 characters or holds
\* parentheses.
C30_SkippedLineNeverSelected ==
    LET lines == LinesOf(raw_output)
        kept == {i \in 1..Len(lines) : ~NamedBySkipRule(lines[i])}
    IN  /\ best_line # <<TICKS>>
        /\ \A i \in 1..Len(best_line) : best_line[i] # PersonaMarker
        /\ best_line # <<>> =>
               \E i \in kept : i <= line_count /\ best_line = Trimmed(lines[i])
        /\ (kept = {} /\ persona_pc \in {"scan", "extracted", "done"}) =>
               best_line = <<>>
        /\ (persona_pc = "done" /\ persona_string # create_fallback_persona(input_json)) =>
               /\ persona_string = best_line
               /\ \E i \in kept : persona_string = Trimmed(lines[i])

\* a line with the name in front, parentheses, more than 50 characters and
\* the echo marker is the only line of the text that is not empty: nothing
\* has been extracted
C30_Witness ==
    /\ persona_pc = "extracted"
    /\ line_count = 2
    /\ Len(LinesOf(raw_output)) = 2
    /\ Tempting(LinesOf(raw_output)[2], input_json.name)
    /\ NamedBySkipRule(LinesOf(raw_output)[2])
    /\ Trimmed(LinesOf(raw_output)[1]) = <<TICKS>>
    /\ best_line = <<>>

\* C32: every non-empty string that extract_persona_line returns is longer
\* than 50 characters and neither starts nor ends with a space, tab, carriage
\* return, newline or double quote; so the caller's test for a length below
\* 20 can only be met by the empty result, and the fallback persona is used
\* exactly when no line qualified.
C32_ExtractedLineLongAndTrimmed ==
    /\ best_line # <<>> =>
           /\ Length(best_line) > 50
           /\ best_line[1] \notin {SP, TAB, CR, LF, QT}
           /\ best_line[Len(best_line)] \notin {SP, TAB, CR, LF, QT}
    /\ persona_pc \in {"extracted", "done"} =>
           /\ Length(best_line) < 20 <=> best_line = <<>>
           /\ best_line = <<>> <=> NoLineQualifies(raw_output, input_json.name)
    /\ persona_pc = "done" =>
           IF NoLineQualifies(raw_output, input_json.name)
           THEN Bytes(persona_string) = FallbackSentence(input_json)
           ELSE persona_string = best_line /\ Length(persona_string) > 50

\* a line of 51 characters between quotes and before a carriage return is
\* the only line that qualifies: it is the final string, without them
C32_Witness ==
    LET lines == LinesOf(raw_output)
    IN  /\ persona_pc = "done"
        /\ Len(lines) = 2
        /\ lines[1] = <<TICKS>>
        /\ Len(lines[2]) > 3
        /\ lines[2][1] = QT
        /\ lines[2][Len(lines[2])] = CR
        /\ Length(best_line) = 51
        /\ best_line = SubSeq(lines[2], 2, Len(lines[2]) - 2)
        /\ persona_string = best_line

(***************************************************************************)
(* Properties of the temporary images.                                     *)
(***************************************************************************)
\* C35: a rendered temporary image that an in-flight request has passed or
\* is about to pass to the vision model is never deleted or overwritten by a
\* different concurrent request: from its rendering until the request's own
\* cleanup, every image of a request is the file that request rendered, and
\* the vision model is given that file.
C35_TempImagesKeptUntilOwnCleanup ==
    \A h \in Handlers :
        /\ req_pc[h] \in {"attachments", "vision", "cleanup"} =>
               \A i \in 1..Len(image_paths[h]) : files[image_paths[h][i]] = h
        /\ \A i \in 1..Len(given[h]) : given[h][i] = h

Init == GenInit /\ ExtIdle /\ PerIdle /\ AttIdle
Next == GenNext
Spec == Init /\ [][Next]_vars

\* a thread inside generate keeps running and every engine call returns; a
\* thread blocked at line 67 gets the mutex if it is free again and again
FairSpec ==
    /\ Spec
    /\ \A t \in Threads : WF_vars(SessionStep(t)) /\ SF_vars(Lock(t))

ExtractInit == GenInit /\ ExtInit /\ PerIdle /\ AttIdle
ExtractSpec == ExtractInit /\ [][ExtNext]_vars

RoundTripSpec == ExtractInit /\ [][RoundTripNext]_vars

PersonaInit == GenInit /\ ExtIdle /\ PerInit /\ AttIdle
PersonaSpec == PersonaInit /\ [][PerNext]_vars

AttachInit == GenInit /\ ExtIdle /\ PerIdle /\ AttInit
AttachSpec == AttachInit /\ [][AttNext]_vars

====
